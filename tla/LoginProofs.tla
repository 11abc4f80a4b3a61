----------------------------- MODULE LoginProofs -----------------------------
(***************************************************************************)
(* Proofs about LoginFlow for every number of browsers, instances,         *)
(* accounts, logins and overlapping callbacks, and that it implements      *)
(* SignIn.                                                                 *)
(***************************************************************************)
EXTENDS LoginFlow, TLAPS

USE TTLAssumption, EnvsAssumption, NoneAssumption

-----------------------------------------------------------------------------
(* Types.                                                                    *)

\* What a callback in progress must have at hand.
LocalOK(q) ==
    /\ q.pc # "idle" => None \notin {q.inst, q.browser, q.state}
    /\ q.pc \in {"old", "session", "answer"} => q.user # None
    /\ q.pc = "answer" => q.session # None

\* What a callback may hold.
LEMMA ProcFields ==
  ASSUME NEW q \in Proc
  PROVE  /\ q.pc \in {"idle", "google", "lookup", "create", "old", "session", "answer"}
         /\ q.inst \in Instances \cup {None} /\ q.browser \in Browsers \cup {None}
         /\ q.state \in States \cup {None} /\ q.mobile \in BOOLEAN
         /\ q.old \in Sessions \cup {None} /\ q.user \in UserIds \cup {None}
         /\ q.session \in Sessions \cup {None}
  BY DEF Proc

\* A cookie, a code or a token of a browser is replaced.
LEMMA BrowserSet ==
  ASSUME NEW e \in Browser, NEW s \in Sessions \cup {None}, NEW st \in States \cup {None}
  PROVE  /\ [e EXCEPT !.state = st] \in Browser /\ [e EXCEPT !.session = s] \in Browser
         /\ [e EXCEPT !.code = s] \in Browser /\ [e EXCEPT !.token = s] \in Browser
  BY DEF Browser

\* A callback slot that is free.
LEMMA IdleType == Idle \in Proc /\ LocalOK(Idle) /\ Idle.pc = "idle" /\ Idle.state = None
                    /\ Idle.session = None /\ Idle.user = None
  BY DEF Idle, Proc, LocalOK

\* A callback that goes on leaves the others alone.
LEMMA Move ==
  ASSUME TypeOK, NEW p \in Procs, NEW q \in Proc, LocalOK(q), proc' = [proc EXCEPT ![p] = q]
  PROVE  /\ proc' \in [Procs -> Proc] /\ proc'[p] = q
         /\ \A r \in Procs : r # p => proc'[r] = proc[r]
         /\ \A r \in Procs : LocalOK(proc'[r])
  BY DEF TypeOK, LocalOK

\* The step of a callback p to the place pc with the user u.
LEMMA Advance ==
  ASSUME TypeOK, NEW p \in Procs, proc[p].pc # "idle",
         NEW pc \in {"lookup", "create", "old", "session"}, NEW u \in UserIds \cup {None},
         pc \in {"old", "session"} => u # None,
         proc' = [proc EXCEPT ![p] = [@ EXCEPT !.pc = pc, !.user = u]]
  PROVE  /\ proc' \in [Procs -> Proc] /\ \A r \in Procs : LocalOK(proc'[r])
         /\ \A r \in Procs : r # p => proc'[r] = proc[r]
         /\ proc'[p].pc = pc /\ proc'[p].user = u /\ proc'[p].state = proc[p].state
         /\ proc'[p].browser = proc[p].browser /\ proc'[p].session = proc[p].session
PROOF
  <1> DEFINE q == [proc[p] EXCEPT !.pc = pc, !.user = u]
  <1>1. proc[p] \in Proc /\ LocalOK(proc[p])
    BY DEF TypeOK, LocalOK
  <1>2. q \in Proc
    BY <1>1 DEF Proc
  <1>3. /\ q.pc = pc /\ q.user = u /\ q.state = proc[p].state /\ q.inst = proc[p].inst
        /\ q.browser = proc[p].browser /\ q.session = proc[p].session
    BY <1>1 DEF Proc
  <1>4. LocalOK(q)
    BY <1>1, <1>3 DEF LocalOK
  <1>5. proc' = [proc EXCEPT ![p] = q]
    BY DEF TypeOK
  <1> HIDE DEF q
  <1> QED
    BY <1>2, <1>3, <1>4, <1>5, Move, ZenonT(60)

\* The end of a callback: its browser gets what is in b and loses the state cookie.
LEMMA AnsweredType ==
  ASSUME TypeOK, NEW p \in Procs, proc[p].pc # "idle", NEW b \in Browser, Answered(p, b)
  PROVE  /\ proc' \in [Procs -> Proc] /\ \A r \in Procs : LocalOK(proc'[r])
         /\ proc'[p] = Idle /\ \A r \in Procs : r # p => proc'[r] = proc[r]
         /\ browser' \in [Browsers -> Browser]
         /\ proc[p].browser \in Browsers
         /\ browser'[proc[p].browser].state = None
         /\ browser'[proc[p].browser].session = b.session
         /\ browser'[proc[p].browser].code = b.code
         /\ browser'[proc[p].browser].token = b.token
         /\ \A c \in Browsers : c # proc[p].browser => browser'[c] = browser[c]
PROOF
  <1>1. proc[p].browser \in Browsers
    BY ProcFields DEF TypeOK
  <1> DEFINE e == [b EXCEPT !.state = None]
  <1>2. e \in Browser /\ e.state = None /\ e.session = b.session /\ e.code = b.code /\ e.token = b.token
    BY DEF Browser
  <1>3. browser' = [browser EXCEPT ![proc[p].browser] = e] /\ proc' = [proc EXCEPT ![p] = Idle]
    BY DEF Answered
  <1> HIDE DEF e
  <1>4. /\ browser' \in [Browsers -> Browser] /\ browser'[proc[p].browser] = e
        /\ \A c \in Browsers : c # proc[p].browser => browser'[c] = browser[c]
    BY <1>1, <1>2, <1>3 DEF TypeOK
  <1> QED
    BY <1>1, <1>2, <1>3, <1>4, IdleType, Move

\* TypeOK says so of every callback.
LEMMA TypeLocal ==
  ASSUME TypeOK
  PROVE  \A p \in Procs : LocalOK(proc[p])
  BY DEF TypeOK, LocalOK

\* What TypeOK asks of the callbacks in the next state.
ProcsOK ==
    /\ proc \in [Procs -> Proc]
    /\ \A r \in Procs : LocalOK(proc[r])
    /\ \A r \in Procs : proc[r].pc # "idle" => link[proc[r].state] # None

CodesOK ==
    /\ codes \in [Instances -> [Sessions -> Nat \cup {None}]]
    /\ swap \in [Sessions -> [at: Nat, times: Nat] \cup {None}]
    /\ \A i \in Instances, s \in Sessions : codes[i][s] # None => swap[s] # None

\* A step that touches neither the callbacks nor the logins, or neither the codes nor
\* their history, keeps what is said of them.
LEMMA Untouched ==
  ASSUME TypeOK
  PROVE  /\ UNCHANGED <<proc, link>> => ProcsOK'
         /\ UNCHANGED <<codes, swap>> => CodesOK'
  BY DEF TypeOK, ProcsOK, CodesOK, LocalOK

\* A callback goes on, and no login is forgotten.
LEMMA MoveOK ==
  ASSUME TypeOK, NEW p \in Procs, proc' \in [Procs -> Proc],
         \A r \in Procs : LocalOK(proc'[r]),
         \A r \in Procs : r # p => proc'[r] = proc[r],
         proc'[p].pc # "idle" => link'[proc'[p].state] # None,
         \A st \in States : link[st] # None => link'[st] # None
  PROVE  ProcsOK'
PROOF
  <1>1. \A r \in Procs : proc[r].pc # "idle" => proc[r].state \in States
    BY ProcFields DEF TypeOK
  <1> QED
    BY <1>1 DEF TypeOK, ProcsOK

\* Logins, consents and callbacks that begin keep the types.
LEMMA StartType ==
  ASSUME TypeOK, NEW st \in States,
         \/ \E b \in Browsers, i \in Instances, mobile \in BOOLEAN : Login(b, i, st, mobile)
         \/ \E g \in Accounts : Consent(st, g)
         \/ \E p \in Procs, b \in Browsers, i \in Instances : Callback(p, b, i, st)
  PROVE  TypeOK'
PROOF
  <1> USE DEF TypeOK
  <1>0. \A r \in Procs : proc[r].pc # "idle" => proc[r].state \in States
    BY ProcFields
  <1>1. ASSUME NEW b \in Browsers, NEW i \in Instances, NEW mobile \in BOOLEAN,
               Login(b, i, st, mobile)
        PROVE  TypeOK'
    <2>1. [expires |-> now + StateTTL, mobile |-> mobile] \in Entry
      BY DEF Entry
    <2>2. states' \in [Instances -> [States -> Entry \cup {None}]]
      BY <1>1, <2>1 DEF Login
    <2>3. browser' \in [Browsers -> Browser]
      <3>1. browser[b] \in Browser
        OBVIOUS
      <3>2. [browser[b] EXCEPT !.state = st] \in Browser
        BY <3>1, BrowserSet
      <3> QED
        BY <1>1, <3>2 DEF Login
    <2>4. [browser |-> b, account |-> None, spent |-> FALSE] \in Link
      BY DEF Link
    <2>5. /\ link' \in [States -> Link \cup {None}]
          /\ \A x \in States : link[x] # None => link'[x] # None
      BY <1>1, <2>4 DEF Login
    <2>6. ProcsOK' /\ CodesOK'
      BY <1>0, <1>1, <2>5, TypeLocal, Untouched DEF Login, ProcsOK
    <2> QED
      BY <1>1, <2>2, <2>3, <2>5, <2>6 DEF Login, ProcsOK, CodesOK, LocalOK
  <1>2. ASSUME NEW g \in Accounts, Consent(st, g)
        PROVE  TypeOK'
    <2>1. link[st] \in Link
      BY <1>2 DEF Consent
    <2>2. [link[st] EXCEPT !.account = g] \in Link
      BY <2>1 DEF Link
    <2>3. /\ link' \in [States -> Link \cup {None}]
          /\ \A x \in States : link[x] # None => link'[x] # None
      BY <1>2, <2>2 DEF Consent
    <2>4. ProcsOK' /\ CodesOK'
      BY <1>0, <1>2, <2>3, TypeLocal, Untouched DEF Consent, ProcsOK
    <2> QED
      BY <1>2, <2>3, <2>4 DEF Consent, ProcsOK, CodesOK, LocalOK
  <1>3. ASSUME NEW p \in Procs, NEW b \in Browsers, NEW i \in Instances, Callback(p, b, i, st)
        PROVE  TypeOK'
    <2>1. states' \in [Instances -> [States -> Entry \cup {None}]]
      BY <1>3 DEF Callback, Consume
    <2>2. ProcsOK'
      <3>1. CASE ~Accepted(b, i, st)
        BY <1>3, <3>1, Untouched DEF Callback
      <3>2. CASE Accepted(b, i, st)
        <4> DEFINE q == [Idle EXCEPT !.pc = "google", !.inst = i, !.browser = b, !.state = st,
                                     !.mobile = states[i][st].mobile, !.old = browser[b].session]
        <4>1. states[i][st].mobile \in BOOLEAN /\ browser[b].session \in Sessions \cup {None}
          BY <3>2 DEF Accepted, Entry, Browser
        <4>2. q \in Proc /\ q.pc = "google" /\ q.inst = i /\ q.browser = b /\ q.state = st
          BY <4>1 DEF Idle, Proc
        <4>3. proc' = [proc EXCEPT ![p] = q]
          BY <1>3, <3>2 DEF Callback
        <4> HIDE DEF q
        <4>4. LocalOK(q)
          BY <4>2 DEF LocalOK
        <4>5. /\ proc' \in [Procs -> Proc] /\ \A r \in Procs : LocalOK(proc'[r])
              /\ proc'[p] = q /\ \A r \in Procs : r # p => proc'[r] = proc[r]
          BY <4>2, <4>3, <4>4, Move
        <4>6. link' = link /\ link[st] # None
          BY <1>3 DEF Callback
        <4> QED
          BY <4>2, <4>5, <4>6, MoveOK
      <3> QED
        BY <3>1, <3>2
    <2>3. CodesOK'
      BY <1>3, Untouched DEF Callback
    <2> QED
      BY <1>3, <2>1, <2>2, <2>3 DEF Callback, ProcsOK, CodesOK, LocalOK
  <1> QED
    BY <1>1, <1>2, <1>3

\* The steps of a callback keep the types.
LEMMA CallbackType ==
  ASSUME TypeOK, NEW p \in Procs, CallbackStep(p)
  PROVE  TypeOK'
PROOF
  <1> USE DEF TypeOK
  <1>1. proc[p] \in Proc /\ LocalOK(proc[p])
    BY TypeLocal
  <1>2. proc[p].pc # "idle" => /\ proc[p].inst \in Instances /\ proc[p].browser \in Browsers
                               /\ proc[p].state \in States /\ link[proc[p].state] \in Link
                               /\ Account(p) \in Accounts \cup {None}
    <2>1. SUFFICES ASSUME proc[p].pc # "idle"
                   PROVE  /\ proc[p].inst \in Instances /\ proc[p].browser \in Browsers
                          /\ proc[p].state \in States /\ link[proc[p].state] \in Link
                          /\ Account(p) \in Accounts \cup {None}
      OBVIOUS
    <2>2. /\ proc[p].inst \in Instances /\ proc[p].browser \in Browsers
          /\ proc[p].state \in States
      BY <1>1, <2>1, ProcFields DEF LocalOK
    <2>3. link[proc[p].state] \in Link
      BY <2>1, <2>2
    <2> QED
      BY <2>2, <2>3 DEF Account, Link
  <1>3. ASSUME NEW pc \in {"lookup", "create", "old", "session"}, NEW u \in UserIds \cup {None},
               pc \in {"old", "session"} => u # None, proc[p].pc # "idle",
               proc' = [proc EXCEPT ![p] = [@ EXCEPT !.pc = pc, !.user = u]],
               \A st \in States : link[st] # None => link'[st] # None
        PROVE  ProcsOK'
    <2>1. /\ proc' \in [Procs -> Proc] /\ \A r \in Procs : LocalOK(proc'[r])
          /\ \A r \in Procs : r # p => proc'[r] = proc[r]
          /\ proc'[p].state = proc[p].state
      BY <1>3, Advance, ZenonT(60)
    <2>2. link'[proc'[p].state] # None
      BY <1>2, <1>3, <2>1
    <2> QED
      BY <1>3, <2>1, <2>2, MoveOK
  <1>4. ASSUME NEW b \in Browser, Answered(p, b), proc[p].pc # "idle", link' = link
        PROVE  ProcsOK' /\ browser' \in [Browsers -> Browser]
    <2>1. /\ proc' \in [Procs -> Proc] /\ \A r \in Procs : LocalOK(proc'[r])
          /\ proc'[p] = Idle /\ \A r \in Procs : r # p => proc'[r] = proc[r]
          /\ browser' \in [Browsers -> Browser]
      BY <1>4, AnsweredType
    <2> QED
      BY <1>4, <2>1, IdleType, MoveOK
  <1>5. CASE CallbackError(p)
    <2>1. ProcsOK' /\ browser' \in [Browsers -> Browser]
      BY <1>2, <1>4, <1>5 DEF CallbackError
    <2>2. CodesOK'
      BY <1>5, Untouched DEF CallbackError
    <2> QED
      BY <1>5, <2>1, <2>2 DEF CallbackError, ProcsOK, CodesOK, LocalOK
  <1>6. CASE Exchange(p)
    <2>1. [link[proc[p].state] EXCEPT !.spent = TRUE] \in Link
      BY <1>2, <1>6 DEF Exchange, Link
    <2>2. /\ link' \in [States -> Link \cup {None}]
          /\ \A st \in States : link[st] # None => link'[st] # None
      BY <1>2, <1>6, <2>1 DEF Exchange
    <2>3. proc' = [proc EXCEPT ![p] = [@ EXCEPT !.pc = "lookup", !.user = proc[p].user]]
      BY <1>1, <1>6, ZenonT(60) DEF Exchange, Proc
    <2>4. ProcsOK' /\ CodesOK'
      BY <1>1, <1>3, <1>6, <2>2, <2>3, ProcFields, Untouched DEF Exchange
    <2> QED
      BY <1>6, <2>2, <2>4 DEF Exchange, ProcsOK, CodesOK, LocalOK
  <1>7. CASE GetUserByGoogleID(p)
    <2>1. CASE \E u \in Known(p) : proc' = [proc EXCEPT ![p].pc = "old", ![p].user = u]
      <3>1. PICK u \in UserIds : proc' = [proc EXCEPT ![p] = [@ EXCEPT !.pc = "old", !.user = u]]
        BY <2>1 DEF Known
      <3>2. ProcsOK' /\ CodesOK'
        BY <1>3, <1>7, <3>1, Untouched DEF GetUserByGoogleID
      <3> QED
        BY <1>7, <3>2 DEF GetUserByGoogleID, ProcsOK, CodesOK, LocalOK
    <2>2. CASE proc' = [proc EXCEPT ![p].pc = "create"]
      <3>1. proc' = [proc EXCEPT ![p] = [@ EXCEPT !.pc = "create", !.user = proc[p].user]]
        BY <1>1, <2>2 DEF Proc
      <3>2. ProcsOK' /\ CodesOK'
        BY <1>1, <1>3, <1>7, <3>1, ProcFields, Untouched DEF GetUserByGoogleID
      <3> QED
        BY <1>7, <3>2 DEF GetUserByGoogleID, ProcsOK, CodesOK, LocalOK
    <2> QED
      BY <1>7, <2>1, <2>2 DEF GetUserByGoogleID
  <1>8. CASE CreateUser(p)
    <2>1. PICK u \in UserIds :
            /\ users' = [users EXCEPT ![u] = Account(p)]
            /\ proc' = [proc EXCEPT ![p] = [@ EXCEPT !.pc = "old", !.user = u]]
      BY <1>8, ZenonT(60) DEF CreateUser
    <2>2. users' \in [UserIds -> Accounts \cup {None}]
      BY <1>2, <1>8, <2>1 DEF CreateUser
    <2>3. ProcsOK' /\ CodesOK'
      BY <1>3, <1>8, <2>1, Untouched DEF CreateUser
    <2> QED
      BY <1>8, <2>2, <2>3 DEF CreateUser, ProcsOK, CodesOK, LocalOK
  <1>9. CASE DeleteOldSession(p)
    <2>1. proc' = [proc EXCEPT ![p] = [@ EXCEPT !.pc = "session", !.user = proc[p].user]]
      BY <1>1, <1>9 DEF DeleteOldSession, Proc
    <2>2. proc[p].user \in UserIds
      BY <1>1, <1>9, ProcFields DEF DeleteOldSession, LocalOK
    <2>3. ProcsOK' /\ CodesOK'
      BY <1>3, <1>9, <2>1, <2>2, Untouched DEF DeleteOldSession
    <2>4. rows' \in [Sessions -> UserIds \cup {None}]
      BY <1>9 DEF DeleteOldSession
    <2> QED
      BY <1>9, <2>3, <2>4 DEF DeleteOldSession, ProcsOK, CodesOK, LocalOK
  <1>10. ASSUME NEW s \in Sessions, CreateSession(p, s)
         PROVE  TypeOK'
    <2> DEFINE q == [proc[p] EXCEPT !.pc = "answer", !.session = s]
    <2>1. proc[p].user \in UserIds /\ proc[p].state \in States /\ link[proc[p].state] # None
      BY <1>1, <1>2, <1>10, ProcFields DEF CreateSession, LocalOK
    <2>2. /\ q \in Proc /\ q.pc = "answer" /\ q.session = s /\ q.user = proc[p].user
          /\ q.state = proc[p].state /\ q.inst = proc[p].inst /\ q.browser = proc[p].browser
      BY <1>1 DEF Proc
    <2>3. proc' = [proc EXCEPT ![p] = q]
      BY <1>10 DEF CreateSession
    <2> HIDE DEF q
    <2>4. LocalOK(q)
      BY <1>1, <1>10, <2>1, <2>2 DEF CreateSession, LocalOK
    <2>5. /\ proc' \in [Procs -> Proc] /\ \A r \in Procs : LocalOK(proc'[r])
          /\ proc'[p] = q /\ \A r \in Procs : r # p => proc'[r] = proc[r]
      BY <2>2, <2>3, <2>4, Move
    <2>6. ProcsOK' /\ CodesOK'
      <3>1. link' = link /\ link'[proc'[p].state] # None
        BY <1>10, <2>1, <2>2, <2>5 DEF CreateSession
      <3>2. ProcsOK'
        BY <2>5, <3>1, MoveOK
      <3> QED
        BY <1>10, <3>2, Untouched DEF CreateSession
    <2>7. /\ rows' \in [Sessions -> UserIds \cup {None}]
          /\ born' \in [Sessions -> [state: States, user: UserIds] \cup {None}]
      BY <1>10, <2>1 DEF CreateSession
    <2> QED
      BY <1>10, <2>6, <2>7 DEF CreateSession, ProcsOK, CodesOK, LocalOK
  <1>11. CASE SetSessionCookie(p)
    <2>1. [browser[proc[p].browser] EXCEPT !.session = proc[p].session] \in Browser
      <3>1. browser[proc[p].browser] \in Browser /\ proc[p].session \in Sessions \cup {None}
        BY <1>1, <1>2, <1>11, ProcFields DEF SetSessionCookie
      <3> QED
        BY <3>1, BrowserSet
    <2>2. ProcsOK' /\ browser' \in [Browsers -> Browser]
      BY <1>4, <1>11, <2>1 DEF SetSessionCookie
    <2>3. CodesOK'
      BY <1>11, Untouched DEF SetSessionCookie
    <2> QED
      BY <1>11, <2>2, <2>3 DEF SetSessionCookie, ProcsOK, CodesOK, LocalOK
  <1>12. CASE CreateAuthCode(p)
    <2>1. proc[p].session \in Sessions /\ proc[p].inst \in Instances
      BY <1>1, <1>2, <1>12, ProcFields DEF CreateAuthCode, LocalOK
    <2>2. [browser[proc[p].browser] EXCEPT !.code = proc[p].session] \in Browser
      <3>1. browser[proc[p].browser] \in Browser
        BY <1>2, <1>12 DEF CreateAuthCode
      <3> QED
        BY <2>1, <3>1, BrowserSet
    <2>3. ProcsOK' /\ browser' \in [Browsers -> Browser]
      BY <1>4, <1>12, <2>2 DEF CreateAuthCode
    <2>4. /\ codes' = [codes EXCEPT ![proc[p].inst][proc[p].session] = now + CodeTTL]
          /\ swap' = [swap EXCEPT ![proc[p].session] = [at |-> now, times |-> 0]]
      BY <1>12 DEF CreateAuthCode
    <2>5. [at |-> now, times |-> 0] \in [at: Nat, times: Nat] /\ now + CodeTTL \in Nat
      OBVIOUS
    <2>6. CodesOK'
      BY <2>1, <2>4, <2>5 DEF CodesOK
    <2> QED
      BY <1>12, <2>3, <2>6 DEF CreateAuthCode, ProcsOK, CodesOK, LocalOK
  <1> QED
    BY <1>5, <1>6, <1>7, <1>8, <1>9, <1>10, <1>11, <1>12 DEF CallbackStep

\* The exchange of a code, clean-ups and restarts keep the types.
LEMMA OtherType ==
  ASSUME TypeOK, NEW i \in Instances,
         (\E b \in Browsers : ExchangeAuthCode(b, i)) \/ Cleanup(i) \/ Restart(i)
  PROVE  TypeOK'
PROOF
  <1> USE DEF TypeOK
  <1>1. ASSUME NEW b \in Browsers, ExchangeAuthCode(b, i)
        PROVE  TypeOK'
    <2> DEFINE s == browser[b].code
               ok == codes[i][s] # None /\ now <= codes[i][s]
    <2>1. browser[b] \in Browser /\ s \in Sessions
      BY <1>1, ZenonT(60) DEF ExchangeAuthCode, Browser
    <2>2. /\ codes' = [codes EXCEPT ![i][s] = None]
          /\ swap' = IF ok THEN [swap EXCEPT ![s].times = @ + 1] ELSE swap
          /\ UNCHANGED <<env, now, states, users, rows, proc, link, born>>
          /\ \/ browser' = [browser EXCEPT ![b].code = None, ![b].token = IF ok THEN s ELSE @]
             \/ browser' = browser
      BY <1>1 DEF ExchangeAuthCode
    <2> HIDE DEF s
    <2>3. browser' \in [Browsers -> Browser]
      <3>1. CASE browser' = browser
        BY <3>1
      <3>2. CASE browser' = [browser EXCEPT ![b].code = None, ![b].token = IF ok THEN s ELSE @]
        <4> DEFINE e == [browser[b] EXCEPT !.code = None]
        <4>1. e \in Browser
          BY <2>1, BrowserSet
        <4> HIDE DEF e
        <4>2. e.token \in Sessions \cup {None}
          BY <4>1 DEF Browser
        <4>3. [e EXCEPT !.token = IF ok THEN s ELSE e.token] \in Browser
          BY <2>1, <4>1, <4>2, BrowserSet
        <4>4. browser' = [browser EXCEPT ![b] = [e EXCEPT !.token = IF ok THEN s ELSE e.token]]
          <5>1. e.token = browser[b].token
            BY <2>1 DEF e, Browser
          <5>2. [e EXCEPT !.token = IF ok THEN s ELSE e.token]
                  = [browser[b] EXCEPT !.code = None, !.token = IF ok THEN s ELSE browser[b].token]
            BY <2>1, <5>1 DEF e, Browser
          <5> QED
            BY <3>2, <5>2
        <4> QED
          BY <4>3, <4>4
      <3> QED
        BY <2>2, <3>1, <3>2
    <2>4. CodesOK'
      <3>1. codes' \in [Instances -> [Sessions -> Nat \cup {None}]]
        BY <2>1, <2>2
      <3>2. ok => swap[s] \in [at: Nat, times: Nat]
        BY <2>1
      <3>3. \A w \in [at: Nat, times: Nat] : [w EXCEPT !.times = @ + 1] \in [at: Nat, times: Nat]
        OBVIOUS
      <3>4. /\ swap' \in [Sessions -> [at: Nat, times: Nat] \cup {None}]
            /\ \A x \in Sessions : swap[x] # None => swap'[x] # None
        <4>1. CASE ok
          <5>1. [swap[s] EXCEPT !.times = @ + 1] \in [at: Nat, times: Nat]
            BY <3>2, <3>3, <4>1
          <5>2. swap' = [swap EXCEPT ![s] = [swap[s] EXCEPT !.times = @ + 1]]
            BY <2>2, <4>1
          <5> QED
            BY <2>1, <5>1, <5>2
        <4>2. CASE ~ok
          BY <2>2, <4>2
        <4> QED
          BY <4>1, <4>2
      <3>5. \A j \in Instances, x \in Sessions : codes'[j][x] # None => codes[j][x] # None
        BY <2>1, <2>2
      <3> QED
        BY <3>1, <3>4, <3>5 DEF CodesOK
    <2>5. ProcsOK'
      BY <2>2, Untouched
    <2> QED
      BY <2>2, <2>3, <2>4, <2>5, ZenonT(60) DEF ProcsOK, CodesOK, LocalOK
  <1>2. CASE Cleanup(i)
    <2>1. /\ states' \in [Instances -> [States -> Entry \cup {None}]]
          /\ codes' \in [Instances -> [Sessions -> Nat \cup {None}]]
          /\ \A j \in Instances, x \in Sessions : codes'[j][x] # None => codes[j][x] # None
      BY <1>2 DEF Cleanup
    <2>2. ProcsOK'
      BY <1>2, Untouched DEF Cleanup
    <2> QED
      BY <1>2, <2>1, <2>2 DEF Cleanup, ProcsOK, LocalOK
  <1>3. CASE Restart(i)
    <2>1. /\ states' \in [Instances -> [States -> Entry \cup {None}]]
          /\ codes' \in [Instances -> [Sessions -> Nat \cup {None}]]
          /\ \A j \in Instances, x \in Sessions : codes'[j][x] # None => codes[j][x] # None
      BY <1>3 DEF Restart
    <2>2. \A r \in Procs : proc'[r] = Idle \/ proc'[r] = proc[r]
      BY <1>3 DEF Restart
    <2>3. proc' \in [Procs -> Proc]
      BY <1>3, IdleType DEF Restart
    <2>4. ProcsOK'
      BY <1>3, <2>2, <2>3, IdleType, TypeLocal DEF Restart, ProcsOK
    <2> QED
      BY <1>3, <2>1, <2>4 DEF Restart, ProcsOK, LocalOK
  <1> QED
    BY <1>1, <1>2, <1>3

\* Every reachable state is well typed: a callback has the browser, the state and the
\* user that its next step uses, and its login is known.
THEOREM TypeCorrect == Spec => []TypeOK
PROOF
  <1>1. Init => TypeOK
    BY IdleType DEF Init, TypeOK, Browser
  <1>2. TypeOK /\ [Next]_vars => TypeOK'
    <2>1. SUFFICES ASSUME TypeOK, [Next]_vars PROVE TypeOK'
      OBVIOUS
    <2>2. CASE UNCHANGED vars
      BY <2>1, <2>2 DEF vars, TypeOK
    <2>3. CASE Tick
      <3>1. ProcsOK' /\ CodesOK'
        BY <2>1, <2>3, Untouched DEF Tick
      <3> QED
        BY <2>1, <2>3, <3>1 DEF Tick, TypeOK, ProcsOK, CodesOK, LocalOK
    <2> QED
      BY <2>1, <2>2, <2>3, StartType, CallbackType, OtherType DEF Next
  <1> QED
    BY <1>1, <1>2, PTL DEF Spec

-----------------------------------------------------------------------------
(* Whose a state, a callback and a session are.                              *)

\* A state in memory is in one instance's only, no callback has it and no session was
\* made with it.
Issued ==
    \A i \in Instances, st \in States : states[i][st] # None =>
        /\ link[st] # None
        /\ \A p \in Procs : proc[p].state # st
        /\ \A s \in Sessions : born[s] # None => born[s].state # st
        /\ \A j \in Instances : states[j][st] # None => j = i

\* The cookies and the code of a browser come from its own logins.
Cookies ==
    \A b \in Browsers :
        /\ browser[b].state # None =>
             link[browser[b].state] # None /\ link[browser[b].state].browser = b
        /\ \A s \in {browser[b].session, browser[b].code, browser[b].token} \ {None} :
             born[s] # None /\ link[born[s].state].browser = b

\* A callback serves the browser of its login, for the account that signed in there, and
\* is the only one that makes a session of it.
Callbacks ==
    \A p \in Procs :
        /\ proc[p].pc = "idle" => proc[p].state = None
        /\ proc[p].pc # "idle" =>
             /\ link[proc[p].state].browser = proc[p].browser
             /\ proc[p].pc # "google" => Account(p) # None
             /\ proc[p].user # None => proc[p].pc # "google" /\ users[proc[p].user] = Account(p)
        /\ proc[p].pc = "answer" => /\ born[proc[p].session] # None
                                    /\ born[proc[p].session].state = proc[p].state
        /\ proc[p].pc # "answer" =>
             \A s \in Sessions : born[s] # None => born[s].state # proc[p].state

\* A session is one of the account that signed in.
Made ==
    \A s \in Sessions : born[s] # None =>
        /\ link[born[s].state] # None /\ link[born[s].state].account # None
        /\ users[born[s].user] = link[born[s].state].account

Alone ==
    /\ \A p, q \in Procs : proc[p].pc # "idle" /\ proc[p].state = proc[q].state => p = q
    /\ \A s, t \in Sessions :
         born[s] # None /\ born[t] # None /\ born[t].state = born[s].state => t = s

IInv == Issued /\ Cookies /\ Callbacks /\ Made /\ Alone

\* What no step takes back.
Grows ==
    /\ \A st \in States : link[st] # None =>
         /\ link'[st] # None /\ link'[st].browser = link[st].browser
         /\ link[st].account # None => link'[st].account = link[st].account
    /\ \A u \in UserIds : users[u] # None => users'[u] = users[u]
    /\ \A s \in Sessions : born[s] # None => born'[s] = born[s]

\* The steps of a callback that neither begin it nor make a session.
Goes(p) ==
    \/ proc'[p] = proc[p]
    \/ proc'[p] = Idle
    \/ /\ proc[p].pc \notin {"idle", "answer"} /\ proc'[p].pc \in {"lookup", "create", "old", "session"}
       /\ proc'[p].state = proc[p].state /\ proc'[p].browser = proc[p].browser
       /\ link'[proc[p].state].account # None
       /\ proc'[p].user # None => users'[proc'[p].user] = link'[proc[p].state].account

\* The facts of TypeOK that the proofs below use again and again.
LEMMA Facts ==
  ASSUME TypeOK
  PROVE  /\ \A p \in Procs : /\ proc[p] \in Proc
                              /\ proc[p].state \in States \cup {None}
                              /\ proc[p].user \in UserIds \cup {None}
                              /\ proc[p].session \in Sessions \cup {None}
                              /\ proc[p].browser \in Browsers \cup {None}
         /\ \A p \in Procs : proc[p].pc # "idle" => /\ proc[p].state \in States
                                                    /\ proc[p].browser \in Browsers
                                                    /\ link[proc[p].state] # None
         /\ \A p \in Procs : proc[p].pc \in {"old", "session", "answer"} => proc[p].user \in UserIds
         /\ \A p \in Procs : proc[p].pc = "answer" => proc[p].session \in Sessions
         /\ \A s \in Sessions : born[s] # None => born[s].state \in States /\ born[s].user \in UserIds
         /\ \A b \in Browsers : /\ browser[b].state \in States \cup {None}
                                /\ browser[b].session \in Sessions \cup {None}
                                /\ browser[b].code \in Sessions \cup {None}
                                /\ browser[b].token \in Sessions \cup {None}
PROOF
  <1>1. \A p \in Procs : /\ proc[p] \in Proc
                         /\ proc[p].state \in States \cup {None}
                         /\ proc[p].user \in UserIds \cup {None}
                         /\ proc[p].session \in Sessions \cup {None}
                         /\ proc[p].browser \in Browsers \cup {None}
    BY ProcFields DEF TypeOK
  <1>2. \A b \in Browsers : /\ browser[b].state \in States \cup {None}
                            /\ browser[b].session \in Sessions \cup {None}
                            /\ browser[b].code \in Sessions \cup {None}
                            /\ browser[b].token \in Sessions \cup {None}
    <2>1. \A b \in Browsers : browser[b] \in Browser
      BY DEF TypeOK
    <2> QED
      BY <2>1 DEF Browser
  <1>3. \A s \in Sessions : born[s] # None => born[s].state \in States /\ born[s].user \in UserIds
    BY DEF TypeOK
  <1> QED
    BY <1>1, <1>2, <1>3 DEF TypeOK

\* The cookies stay good while nothing is taken back and the browsers stay as they are.
LEMMA CookiesKept ==
  ASSUME TypeOK, Cookies, Made, Grows, browser' = browser
  PROVE  Cookies'
PROOF
  <1>1. SUFFICES ASSUME NEW b \in Browsers
                 PROVE  /\ browser[b].state # None =>
                             link'[browser[b].state] # None /\ link'[browser[b].state].browser = b
                        /\ \A s \in {browser[b].session, browser[b].code, browser[b].token} \ {None} :
                             born'[s] # None /\ link'[born'[s].state].browser = b
    BY DEF Cookies
  <1>2. browser[b].state # None => browser[b].state \in States
    BY Facts
  <1>3. \A s \in {browser[b].session, browser[b].code, browser[b].token} \ {None} :
            s \in Sessions /\ born[s] # None /\ link[born[s].state].browser = b
    BY Facts DEF Cookies
  <1>4. \A s \in Sessions : born[s] # None => born[s].state \in States /\ link[born[s].state] # None
    BY Facts DEF Made
  <1> QED
    BY <1>2, <1>3, <1>4 DEF Cookies, Grows

\* Sessions stay what they were made from.
LEMMA MadeKept ==
  ASSUME TypeOK, Made, Grows, born' = born
  PROVE  Made'
PROOF
  <1>1. ASSUME NEW s \in Sessions, born[s] # None
        PROVE  /\ link'[born[s].state] # None /\ link'[born[s].state].account # None
               /\ users'[born[s].user] = link'[born[s].state].account
    <2>1. /\ born[s].state \in States /\ born[s].user \in UserIds
          /\ link[born[s].state] # None /\ link[born[s].state].account # None
          /\ users[born[s].user] = link[born[s].state].account
      BY <1>1, Facts DEF Made
    <2> QED
      BY <2>1 DEF Grows
  <1> QED
    BY <1>1 DEF Made

\* Callbacks that only go on keep their state and their account to themselves.
LEMMA CallbacksKept ==
  ASSUME TypeOK, Callbacks, Alone, Grows, born' = born, \A p \in Procs : Goes(p)
  PROVE  Callbacks' /\ Alone'
PROOF
  <1>1. ASSUME NEW p \in Procs
        PROVE  /\ proc'[p].pc = "idle" => proc'[p].state = None
               /\ proc'[p].pc # "idle" =>
                    /\ proc'[p].state = proc[p].state /\ proc[p].pc # "idle"
                    /\ link'[proc'[p].state].browser = proc'[p].browser
                    /\ proc'[p].pc # "google" => link'[proc'[p].state].account # None
                    /\ proc'[p].user # None =>
                         proc'[p].pc # "google" /\ users'[proc'[p].user] = link'[proc'[p].state].account
               /\ proc'[p].pc = "answer" => proc'[p] = proc[p]
               /\ proc'[p].pc # "answer" => proc[p].pc # "answer" \/ proc'[p] = Idle
    <2>1. CASE proc'[p] = Idle
      BY <2>1, IdleType
    <2>2. CASE proc'[p] = proc[p]
      <3>1. CASE proc[p].pc = "idle"
        BY <2>2, <3>1 DEF Callbacks
      <3>2. CASE proc[p].pc # "idle"
        <4>1. /\ proc[p].state \in States /\ link[proc[p].state] # None
              /\ proc[p].user \in UserIds \cup {None}
          BY <3>2, Facts
        <4>2. /\ link[proc[p].state].browser = proc[p].browser
              /\ proc[p].pc # "google" => link[proc[p].state].account # None
              /\ proc[p].user # None =>
                   proc[p].pc # "google" /\ users[proc[p].user] = link[proc[p].state].account
          BY <3>2 DEF Callbacks, Account
        <4> QED
          BY <2>2, <3>2, <4>1, <4>2 DEF Grows
      <3> QED
        BY <3>1, <3>2
    <2>3. CASE /\ proc[p].pc \notin {"idle", "answer"} /\ proc'[p].pc \in {"lookup", "create", "old", "session"}
               /\ proc'[p].state = proc[p].state /\ proc'[p].browser = proc[p].browser
               /\ link'[proc[p].state].account # None
               /\ proc'[p].user # None => users'[proc'[p].user] = link'[proc[p].state].account
      <3>1. proc[p].state \in States /\ link[proc[p].state] # None
        BY <2>3, Facts
      <3>2. link[proc[p].state].browser = proc[p].browser
        BY <2>3 DEF Callbacks
      <3> QED
        BY <2>3, <3>1, <3>2 DEF Grows
    <2> QED
      BY <2>1, <2>2, <2>3 DEF Goes
  <1>2. Callbacks'
    <2>1. \A s \in Sessions : born[s] # None => born[s].state # None
      BY Facts
    <2>2. \A p \in Procs : proc'[p] = Idle => proc'[p].state = None
      BY IdleType
    <2> QED
      BY <1>1, <2>1, <2>2 DEF Callbacks, Account
  <1>3. Alone'
    <2>1. \A p \in Procs : proc[p].pc # "idle" => proc[p].state # None
      BY Facts
    <2> QED
      BY <1>1, <2>1 DEF Alone
  <1> QED
    BY <1>2, <1>3

\* No step but a login issues a state.
LEMMA IssuedKept ==
  ASSUME TypeOK, Issued, Grows, born' = born, \A p \in Procs : Goes(p),
         \A i \in Instances, st \in States : states'[i][st] # None => states[i][st] # None
  PROVE  Issued'
PROOF
  <1>1. \A p \in Procs : proc'[p].state = proc[p].state \/ proc'[p].state = None
    BY IdleType DEF Goes
  <1> QED
    BY <1>1 DEF Issued, Grows

\* A new login gets a state that nothing refers to.
LEMMA LoginKeeps ==
  ASSUME TypeOK, IInv, NEW b \in Browsers, NEW i \in Instances, NEW st \in States,
         NEW mobile \in BOOLEAN, Login(b, i, st, mobile)
  PROVE  IInv'
PROOF
  <1>1. /\ link[st] = None /\ UNCHANGED <<users, proc, born>>
        /\ link' = [link EXCEPT ![st] = [browser |-> b, account |-> None, spent |-> FALSE]]
        /\ browser' = [browser EXCEPT ![b].state = st]
        /\ states' = [states EXCEPT ![i][st] = [expires |-> now + StateTTL, mobile |-> mobile]]
    BY DEF Login
  <1>2. link'[st] # None /\ link'[st].browser = b /\ \A x \in States : x # st => link'[x] = link[x]
    <2>1. [browser |-> b, account |-> None, spent |-> FALSE] \in Link
      BY DEF Link
    <2> QED
      BY <1>1, <2>1 DEF TypeOK
  <1>3. Grows
    BY <1>1, <1>2 DEF Grows
  <1>4. \A p \in Procs : Goes(p)
    BY <1>1 DEF Goes
  <1>5. Made' /\ Callbacks' /\ Alone'
    BY <1>1, <1>3, <1>4, MadeKept, CallbacksKept DEF IInv
  <1>6. Issued'
    <2>1. \A j \in Instances, x \in States :
            ~(j = i /\ x = st) => states'[j][x] = states[j][x]
      BY <1>1 DEF TypeOK
    <2>2. \A j \in Instances : states[j][st] = None
      BY <1>1 DEF IInv, Issued
    <2>3. /\ \A p \in Procs : proc[p].state # st
          /\ \A s \in Sessions : born[s] # None => born[s].state # st
      <3>1. \A p \in Procs : proc[p].pc = "idle" => proc[p].state = None
        BY DEF IInv, Callbacks
      <3> QED
        BY <1>1, <3>1, Facts DEF IInv, Made
    <2> QED
      BY <1>1, <1>2, <2>1, <2>2, <2>3 DEF IInv, Issued
  <1>7. Cookies'
    <2>1. /\ \A c \in Browsers : /\ browser'[c].session = browser[c].session
                                 /\ browser'[c].code = browser[c].code
                                 /\ browser'[c].token = browser[c].token
                                 /\ c # b => browser'[c].state = browser[c].state
          /\ browser'[b].state = st
      BY <1>1 DEF TypeOK, Browser
    <2>2. ASSUME NEW c \in Browsers,
                 NEW s \in {browser[c].session, browser[c].code, browser[c].token} \ {None}
          PROVE  born'[s] # None /\ link'[born'[s].state].browser = c
      <3>1. s \in Sessions /\ born[s] # None /\ link[born[s].state].browser = c
        BY Facts DEF IInv, Cookies
      <3>2. born[s].state \in States /\ link[born[s].state] # None
        BY <3>1, Facts DEF IInv, Made
      <3> QED
        BY <3>1, <3>2, <1>3 DEF Grows
    <2>3. ASSUME NEW c \in Browsers, browser'[c].state # None
          PROVE  link'[browser'[c].state] # None /\ link'[browser'[c].state].browser = c
      <3>1. CASE c = b
        BY <1>2, <2>1, <3>1
      <3>2. CASE c # b
        <4>1. /\ browser[c].state \in States /\ link[browser[c].state] # None
              /\ link[browser[c].state].browser = c
          BY <2>1, <2>3, <3>2, Facts DEF IInv, Cookies
        <4> QED
          BY <1>3, <2>1, <3>2, <4>1 DEF Grows
      <3> QED
        BY <3>1, <3>2
    <2> QED
      BY <2>1, <2>2, <2>3 DEF Cookies
  <1> QED
    BY <1>5, <1>6, <1>7 DEF IInv

\* A callback whose state is accepted takes it out of memory.
LEMMA CallbackKeeps ==
  ASSUME TypeOK, IInv, NEW p \in Procs, NEW b \in Browsers, NEW i \in Instances, NEW st \in States,
         Callback(p, b, i, st)
  PROVE  IInv'
PROOF
  <1>1. proc[p].pc = "idle" /\ UNCHANGED <<users, browser, link, born>> /\ link[st] # None
    BY DEF Callback
  <1>2. Grows
    BY <1>1 DEF Grows
  <1>3. Made' /\ Cookies'
    BY <1>1, <1>2, MadeKept, CookiesKept DEF IInv
  <1>4. /\ \A j \in Instances, x \in States : states'[j][x] # None => states[j][x] # None
        /\ browser[b].state = st => states'[i][st] = None
    BY DEF Callback, Consume, TypeOK
  <1>5. CASE ~Accepted(b, i, st)
    <2>1. \A r \in Procs : Goes(r)
      BY <1>5 DEF Callback, Goes
    <2> QED
      BY <1>1, <1>2, <1>3, <1>4, <2>1, CallbacksKept, IssuedKept DEF IInv
  <1>6. CASE Accepted(b, i, st)
    <2> DEFINE q == [Idle EXCEPT !.pc = "google", !.inst = i, !.browser = b, !.state = st,
                                 !.mobile = states[i][st].mobile, !.old = browser[b].session]
    <2>1. proc' = [proc EXCEPT ![p] = q]
      BY <1>6 DEF Callback
    <2>2. q.pc = "google" /\ q.browser = b /\ q.state = st /\ q.user = None
      BY DEF Idle
    <2> HIDE DEF q
    <2>3. proc'[p] = q /\ \A r \in Procs : r # p => proc'[r] = proc[r]
      BY <2>1 DEF TypeOK
    <2>4. browser[b].state = st /\ states[i][st] # None /\ st # None
      BY <1>6 DEF Accepted
    <2>5. /\ \A r \in Procs : proc[r].state # st
          /\ \A s \in Sessions : born[s] # None => born[s].state # st
          /\ \A j \in Instances : states[j][st] # None => j = i
      BY <2>4 DEF IInv, Issued
    <2>6. link[st].browser = b
      BY <2>4 DEF IInv, Cookies
    <2>7. Callbacks'
      <3>1. \A r \in Procs : r # p => Account(r)' = Account(r)
        BY <1>1, <2>3 DEF Account
      <3>2. \A r \in Procs : r # p =>
              /\ proc'[r].pc = "idle" => proc'[r].state = None
              /\ proc'[r].pc # "idle" =>
                   /\ link'[proc'[r].state].browser = proc'[r].browser
                   /\ proc'[r].pc # "google" => Account(r)' # None
                   /\ proc'[r].user # None =>
                        proc'[r].pc # "google" /\ users'[proc'[r].user] = Account(r)'
              /\ proc'[r].pc = "answer" => /\ born'[proc'[r].session] # None
                                           /\ born'[proc'[r].session].state = proc'[r].state
              /\ proc'[r].pc # "answer" =>
                   \A s \in Sessions : born'[s] # None => born'[s].state # proc'[r].state
        BY <1>1, <2>3, <3>1 DEF IInv, Callbacks
      <3> QED
        BY <1>1, <2>2, <2>3, <2>5, <2>6, <3>2 DEF Callbacks
    <2>8. Alone'
      BY <1>1, <2>2, <2>3, <2>5 DEF IInv, Alone
    <2>9. Issued'
      BY <1>1, <1>4, <2>2, <2>3, <2>4, <2>5 DEF IInv, Issued
    <2> QED
      BY <1>3, <2>7, <2>8, <2>9 DEF IInv
  <1> QED
    BY <1>5, <1>6

\* The answer of a callback: its browser gets what its own login made.
LEMMA AnswerKeeps ==
  ASSUME TypeOK, IInv, NEW p \in Procs, proc[p].pc # "idle", NEW e \in Browser, Answered(p, e),
         UNCHANGED <<users, link, born, states>>,
         \A s \in {e.session, e.code, e.token} \ {None} :
            born[s] # None /\ link[born[s].state].browser = proc[p].browser
  PROVE  IInv'
PROOF
  <1> DEFINE c == proc[p].browser
  <1>1. /\ proc'[p] = Idle /\ \A r \in Procs : r # p => proc'[r] = proc[r]
        /\ c \in Browsers /\ browser'[c].state = None
        /\ browser'[c].session = e.session /\ browser'[c].code = e.code
        /\ browser'[c].token = e.token
        /\ \A d \in Browsers : d # c => browser'[d] = browser[d]
    BY AnsweredType
  <1>2. Grows /\ \A r \in Procs : Goes(r)
    BY <1>1 DEF Grows, Goes
  <1>3. Made' /\ Callbacks' /\ Alone' /\ Issued'
    BY <1>2, MadeKept, CallbacksKept, IssuedKept DEF IInv
  <1> HIDE DEF c
  <1>4. Cookies'
    <2>1. ASSUME NEW d \in Browsers, d # c
          PROVE  /\ browser'[d].state # None =>
                      link'[browser'[d].state] # None /\ link'[browser'[d].state].browser = d
                 /\ \A s \in {browser'[d].session, browser'[d].code, browser'[d].token} \ {None} :
                      born'[s] # None /\ link'[born'[s].state].browser = d
      BY <1>1, <2>1 DEF IInv, Cookies
    <2>2. /\ browser'[c].state # None =>
               link'[browser'[c].state] # None /\ link'[browser'[c].state].browser = c
          /\ \A s \in {browser'[c].session, browser'[c].code, browser'[c].token} \ {None} :
               born'[s] # None /\ link'[born'[s].state].browser = c
      BY <1>1 DEF c
    <2> QED
      BY <2>1, <2>2 DEF Cookies
  <1> QED
    BY <1>3, <1>4 DEF IInv

\* A step that takes nothing back, lets callbacks go on and leaves cookies and sessions.
LEMMA QuietKeeps ==
  ASSUME TypeOK, IInv, Grows, UNCHANGED <<browser, born>>, \A r \in Procs : Goes(r),
         \A j \in Instances, x \in States : states'[j][x] # None => states[j][x] # None
  PROVE  IInv'
  BY CookiesKept, MadeKept, CallbacksKept, IssuedKept DEF IInv

\* The step of a callback to another place, with the user that it found.
LEMMA AdvanceGoes ==
  ASSUME TypeOK, NEW p \in Procs, proc[p].pc \notin {"idle", "answer"},
         NEW pc \in {"lookup", "create", "old", "session"}, NEW u \in UserIds \cup {None},
         pc \in {"old", "session"} => u # None,
         proc' = [proc EXCEPT ![p] = [@ EXCEPT !.pc = pc, !.user = u]],
         link'[proc[p].state].account # None,
         u # None => users'[u] = link'[proc[p].state].account
  PROVE  \A r \in Procs : Goes(r)
PROOF
  <1>1. /\ \A r \in Procs : r # p => proc'[r] = proc[r]
        /\ proc'[p].pc = pc /\ proc'[p].user = u /\ proc'[p].state = proc[p].state
        /\ proc'[p].browser = proc[p].browser
    BY Advance, ZenonT(60)
  <1> QED
    BY <1>1 DEF Goes

\* Every step of a callback keeps the invariant.
LEMMA CallbackStepKeeps ==
  ASSUME TypeOK, IInv, NEW p \in Procs, CallbackStep(p)
  PROVE  IInv'
PROOF
  <1>1. /\ proc[p] \in Proc /\ proc[p].user \in UserIds \cup {None}
        /\ proc[p].pc # "idle" =>
             /\ proc[p].state \in States /\ proc[p].browser \in Browsers
             /\ link[proc[p].state] # None /\ link[proc[p].state].browser = proc[p].browser
             /\ proc[p].pc # "google" => Account(p) # None
             /\ proc[p].user # None => proc[p].pc # "google" /\ users[proc[p].user] = Account(p)
        /\ proc[p].pc \in {"old", "session", "answer"} => proc[p].user \in UserIds
    BY Facts DEF IInv, Callbacks
  <1>2. proc[p].pc # "idle" =>
          /\ browser[proc[p].browser] \in Browser
          /\ LET d == browser[proc[p].browser]
             IN  \A s \in {d.session, d.code, d.token} \ {None} :
                    born[s] # None /\ link[born[s].state].browser = proc[p].browser
    BY <1>1 DEF IInv, Cookies, TypeOK
  <1>3. CASE CallbackError(p)
    BY <1>2, <1>3, AnswerKeeps DEF CallbackError
  <1>4. CASE Exchange(p)
    <2>1. link' = [link EXCEPT ![proc[p].state].spent = TRUE] /\ UNCHANGED <<users, born, browser, states>>
          /\ Account(p) # None /\ proc[p].pc = "google"
      BY <1>4 DEF Exchange
    <2>2. /\ \A st \in States : st # proc[p].state => link'[st] = link[st]
          /\ link'[proc[p].state] = [link[proc[p].state] EXCEPT !.spent = TRUE]
      BY <1>1, <2>1 DEF TypeOK
    <2>3. link[proc[p].state] \in Link
      BY <1>1, <2>1 DEF TypeOK
    <2>4. /\ link'[proc[p].state] # None /\ link'[proc[p].state].account = Account(p)
          /\ link'[proc[p].state].browser = link[proc[p].state].browser
      <3>1. [link[proc[p].state] EXCEPT !.spent = TRUE] \in Link
        BY <2>3 DEF Link
      <3> QED
        BY <2>2, <2>3, <3>1 DEF Link, Account
    <2>5. Grows
      BY <2>1, <2>2, <2>4 DEF Grows, Account
    <2>6. proc' = [proc EXCEPT ![p] = [@ EXCEPT !.pc = "lookup", !.user = proc[p].user]]
      BY <1>1, <1>4 DEF Exchange, Proc
    <2>7. \A r \in Procs : Goes(r)
      BY <1>1, <2>1, <2>4, <2>6, AdvanceGoes
    <2> QED
      BY <2>1, <2>5, <2>7, QuietKeeps
  <1>5. CASE GetUserByGoogleID(p)
    <2>1. UNCHANGED <<users, born, browser, states, link>> /\ proc[p].pc = "lookup"
      BY <1>5 DEF GetUserByGoogleID
    <2>2. \A r \in Procs : Goes(r)
      <3>1. CASE \E u \in Known(p) : proc' = [proc EXCEPT ![p].pc = "old", ![p].user = u]
        <4>1. PICK u \in UserIds :
                /\ users[u] = Account(p)
                /\ proc' = [proc EXCEPT ![p] = [@ EXCEPT !.pc = "old", !.user = u]]
          BY <3>1 DEF Known
        <4>2. link'[proc[p].state].account # None /\ users'[u] = link'[proc[p].state].account
          BY <1>1, <2>1, <4>1 DEF Account
        <4> QED
          BY <2>1, <4>1, <4>2, AdvanceGoes
      <3>2. CASE proc' = [proc EXCEPT ![p].pc = "create"]
        <4>1. proc' = [proc EXCEPT ![p] = [@ EXCEPT !.pc = "create", !.user = proc[p].user]]
          BY <1>1, <3>2 DEF Proc
        <4>2. /\ link'[proc[p].state].account # None
              /\ proc[p].user # None => users'[proc[p].user] = link'[proc[p].state].account
          BY <1>1, <2>1 DEF Account
        <4> QED
          BY <1>1, <2>1, <4>1, <4>2, AdvanceGoes
      <3> QED
        BY <1>5, <3>1, <3>2 DEF GetUserByGoogleID
    <2> QED
      BY <2>1, <2>2, QuietKeeps DEF Grows
  <1>6. CASE CreateUser(p)
    <2>1. UNCHANGED <<born, browser, states, link>> /\ proc[p].pc = "create"
      BY <1>6 DEF CreateUser
    <2>2. PICK u \in UserIds :
            /\ users[u] = None /\ users' = [users EXCEPT ![u] = Account(p)]
            /\ proc' = [proc EXCEPT ![p] = [@ EXCEPT !.pc = "old", !.user = u]]
      BY <1>6 DEF CreateUser
    <2>3. users'[u] = Account(p) /\ \A v \in UserIds : v # u => users'[v] = users[v]
      BY <2>2 DEF TypeOK
    <2>4. link'[proc[p].state].account # None /\ users'[u] = link'[proc[p].state].account
      BY <1>1, <2>1, <2>3 DEF Account
    <2>5. \A r \in Procs : Goes(r)
      BY <2>1, <2>2, <2>4, AdvanceGoes
    <2>6. Grows
      BY <2>1, <2>2, <2>3 DEF Grows
    <2> QED
      BY <2>1, <2>5, <2>6, QuietKeeps
  <1>7. CASE DeleteOldSession(p)
    <2>1. UNCHANGED <<users, born, browser, states, link>> /\ proc[p].pc = "old"
      BY <1>7 DEF DeleteOldSession
    <2>2. proc' = [proc EXCEPT ![p] = [@ EXCEPT !.pc = "session", !.user = proc[p].user]]
      BY <1>1, <1>7 DEF DeleteOldSession, Proc
    <2>3. /\ link'[proc[p].state].account # None
          /\ users'[proc[p].user] = link'[proc[p].state].account
      BY <1>1, <2>1 DEF Account
    <2>4. \A r \in Procs : Goes(r)
      BY <1>1, <2>1, <2>2, <2>3, AdvanceGoes
    <2> QED
      BY <2>1, <2>4, QuietKeeps DEF Grows
  <1>8. CASE SetSessionCookie(p)
    <2> DEFINE d == browser[proc[p].browser]
               e == [d EXCEPT !.session = proc[p].session]
    <2>1. proc[p].pc = "answer" /\ Answered(p, e) /\ UNCHANGED <<users, link, born, states>>
      BY <1>8 DEF SetSessionCookie
    <2>2. /\ born[proc[p].session] # None /\ born[proc[p].session].state = proc[p].state
          /\ proc[p].session \in Sessions
      BY <2>1, Facts DEF IInv, Callbacks
    <2>3. d \in Browser /\ \A s \in {d.session, d.code, d.token} \ {None} :
                              born[s] # None /\ link[born[s].state].browser = proc[p].browser
      BY <1>2, <2>1
    <2> HIDE DEF d
    <2>4. e \in Browser /\ e.session = proc[p].session /\ e.code = d.code /\ e.token = d.token
      BY <2>2, <2>3 DEF Browser
    <2> HIDE DEF e
    <2>5. \A s \in {e.session, e.code, e.token} \ {None} :
             born[s] # None /\ link[born[s].state].browser = proc[p].browser
      BY <1>1, <2>1, <2>2, <2>3, <2>4
    <2> QED
      BY <2>1, <2>4, <2>5, AnswerKeeps
  <1>9. CASE CreateAuthCode(p)
    <2> DEFINE d == browser[proc[p].browser]
               e == [d EXCEPT !.code = proc[p].session]
    <2>1. proc[p].pc = "answer" /\ Answered(p, e) /\ UNCHANGED <<users, link, born, states>>
      BY <1>9 DEF CreateAuthCode
    <2>2. /\ born[proc[p].session] # None /\ born[proc[p].session].state = proc[p].state
          /\ proc[p].session \in Sessions
      BY <2>1, Facts DEF IInv, Callbacks
    <2>3. d \in Browser /\ \A s \in {d.session, d.code, d.token} \ {None} :
                              born[s] # None /\ link[born[s].state].browser = proc[p].browser
      BY <1>2, <2>1
    <2> HIDE DEF d
    <2>4. e \in Browser /\ e.code = proc[p].session /\ e.session = d.session /\ e.token = d.token
      BY <2>2, <2>3 DEF Browser
    <2> HIDE DEF e
    <2>5. \A s \in {e.session, e.code, e.token} \ {None} :
             born[s] # None /\ link[born[s].state].browser = proc[p].browser
      BY <1>1, <2>1, <2>2, <2>3, <2>4
    <2> QED
      BY <2>1, <2>4, <2>5, AnswerKeeps
  <1>10. ASSUME NEW s \in Sessions, CreateSession(p, s)
         PROVE  IInv'
    <2> DEFINE q == [proc[p] EXCEPT !.pc = "answer", !.session = s]
               n == [state |-> proc[p].state, user |-> proc[p].user]
    <2>1. /\ proc[p].pc = "session" /\ born[s] = None
          /\ UNCHANGED <<users, link, browser, states>>
          /\ born' = [born EXCEPT ![s] = n] /\ proc' = [proc EXCEPT ![p] = q]
      BY <1>10 DEF CreateSession
    <2>2. /\ proc[p].state \in States /\ proc[p].user \in UserIds /\ link[proc[p].state] # None
          /\ link[proc[p].state].account # None /\ users[proc[p].user] = link[proc[p].state].account
          /\ link[proc[p].state].browser = proc[p].browser
      BY <1>1, <2>1 DEF Account
    <2>3. n # None /\ n.state = proc[p].state /\ n.user = proc[p].user
      <3>1. n \in [state: States, user: UserIds]
        BY <2>2
      <3> QED
        BY <3>1
    <2>4. /\ q.pc = "answer" /\ q.session = s /\ q.user = proc[p].user
          /\ q.state = proc[p].state /\ q.browser = proc[p].browser
      BY <1>1 DEF Proc
    <2> HIDE DEF q, n
    <2>5. /\ born'[s] = n /\ \A x \in Sessions : x # s => born'[x] = born[x]
          /\ proc'[p] = q /\ \A r \in Procs : r # p => proc'[r] = proc[r]
      BY <2>1 DEF TypeOK
    <2>6. Grows
      BY <2>1, <2>5 DEF Grows
    <2>7. Cookies'
      BY <2>1, <2>6, CookiesKept DEF IInv
    <2>8. Made'
      <3>1. \A x \in Sessions : x # s /\ born[x] # None =>
              /\ link[born[x].state] # None /\ link[born[x].state].account # None
              /\ users[born[x].user] = link[born[x].state].account
        BY DEF IInv, Made
      <3> QED
        BY <2>1, <2>2, <2>3, <2>5, <3>1 DEF Made
    <2>9. /\ \A x \in Sessions : born[x] # None => born[x].state # proc[p].state
          /\ \A r \in Procs : r # p => proc[r].state # proc[p].state
      BY <2>1 DEF IInv, Callbacks, Alone
    <2>10. Alone'
      BY <2>3, <2>4, <2>5, <2>9 DEF IInv, Alone
    <2>11. Issued'
      BY <2>1, <2>3, <2>4, <2>5 DEF IInv, Issued
    <2>12. Callbacks'
      <3>1. ASSUME NEW r \in Procs, r # p
            PROVE  /\ proc'[r].pc = "idle" => proc'[r].state = None
                   /\ proc'[r].pc # "idle" =>
                        /\ link'[proc'[r].state].browser = proc'[r].browser
                        /\ proc'[r].pc # "google" => Account(r)' # None
                        /\ proc'[r].user # None =>
                             proc'[r].pc # "google" /\ users'[proc'[r].user] = Account(r)'
                   /\ proc'[r].pc = "answer" => /\ born'[proc'[r].session] # None
                                                /\ born'[proc'[r].session].state = proc'[r].state
                   /\ proc'[r].pc # "answer" =>
                        \A x \in Sessions : born'[x] # None => born'[x].state # proc'[r].state
        <4>1. Account(r)' = Account(r) /\ proc'[r] = proc[r]
          BY <2>1, <2>5, <3>1 DEF Account
        <4>2. proc[r].pc = "answer" => proc[r].session \in Sessions /\ proc[r].session # s
          BY <2>1, Facts DEF IInv, Callbacks
        <4> QED
          BY <2>1, <2>3, <2>5, <2>9, <3>1, <4>1, <4>2 DEF IInv, Callbacks
      <3>2. /\ link'[proc'[p].state].browser = proc'[p].browser /\ Account(p)' # None
            /\ users'[proc'[p].user] = Account(p)' /\ proc'[p].pc = "answer"
            /\ born'[proc'[p].session] # None /\ born'[proc'[p].session].state = proc'[p].state
        BY <2>1, <2>2, <2>3, <2>4, <2>5 DEF Account
      <3> QED
        BY <3>1, <3>2 DEF Callbacks
    <2> QED
      BY <2>7, <2>8, <2>10, <2>11, <2>12 DEF IInv
  <1> QED
    BY <1>3, <1>4, <1>5, <1>6, <1>7, <1>8, <1>9, <1>10 DEF CallbackStep

\* Exchange of a code: the app gets the session that its code stands for.
LEMMA ExchangeKeeps ==
  ASSUME TypeOK, IInv, NEW b \in Browsers, NEW i \in Instances, ExchangeAuthCode(b, i)
  PROVE  IInv'
PROOF
  <1>1. UNCHANGED <<users, link, born, states, proc>>
    BY DEF ExchangeAuthCode
  <1>2. Grows /\ \A r \in Procs : Goes(r)
    BY <1>1 DEF Grows, Goes
  <1>3. Made' /\ Callbacks' /\ Alone' /\ Issued'
    BY <1>1, <1>2, MadeKept, CallbacksKept, IssuedKept DEF IInv
  <1>4. /\ \A c \in Browsers : c # b => browser'[c] = browser[c]
        /\ browser'[b].state = browser[b].state /\ browser'[b].session = browser[b].session
        /\ browser'[b].code \in {browser[b].code, None}
        /\ browser'[b].token \in {browser[b].code, browser[b].token}
    <2>1. browser \in [Browsers -> Browser] /\ browser[b] \in Browser
      BY DEF TypeOK
    <2>2. CASE browser' = browser
      BY <2>2
    <2>3. CASE browser' # browser
      <3> DEFINE s == browser[b].code
                 ok == codes[i][s] # None /\ now <= codes[i][s]
                 e == [browser[b] EXCEPT !.code = None, !.token = IF ok THEN s ELSE @]
      <3>1. browser' = [browser EXCEPT ![b] = e]
        BY <2>3 DEF ExchangeAuthCode
      <3>2. /\ e.state = browser[b].state /\ e.session = browser[b].session
            /\ e.code = None /\ e.token = IF ok THEN s ELSE browser[b].token
        BY <2>1 DEF Browser
      <3> HIDE DEF e, ok
      <3> QED
        BY <2>1, <3>1, <3>2
    <2> QED
      BY <2>2, <2>3
  <1>5. Cookies'
    <2>1. ASSUME NEW c \in Browsers
          PROVE  /\ browser'[c].state # None =>
                      link[browser'[c].state] # None /\ link[browser'[c].state].browser = c
                 /\ \A s \in {browser'[c].session, browser'[c].code, browser'[c].token} \ {None} :
                      born[s] # None /\ link[born[s].state].browser = c
      <3>1. /\ browser'[c].state = browser[c].state
            /\ {browser'[c].session, browser'[c].code, browser'[c].token} \ {None}
                  \subseteq {browser[c].session, browser[c].code, browser[c].token} \ {None}
        BY <1>4
      <3> QED
        BY <3>1 DEF IInv, Cookies
    <2> QED
      BY <1>1, <2>1 DEF Cookies
  <1> QED
    BY <1>3, <1>5 DEF IInv

\* Every step keeps the invariant.
LEMMA StepKeeps ==
  ASSUME TypeOK, IInv, [Next]_vars
  PROVE  IInv'
PROOF
  <1>1. CASE UNCHANGED vars \/ Tick
    <2>1. UNCHANGED <<users, link, born, states, proc, browser>>
      BY <1>1 DEF vars, Tick
    <2> QED
      BY <2>1, QuietKeeps DEF Grows, Goes
  <1>2. ASSUME NEW st \in States, NEW g \in Accounts, Consent(st, g)
        PROVE  IInv'
    <2>1. /\ link[st] # None /\ link[st].account = None /\ link' = [link EXCEPT ![st].account = g]
          /\ UNCHANGED <<users, born, states, proc, browser>>
      BY <1>2 DEF Consent
    <2>2. link[st] \in Link
      BY <2>1 DEF TypeOK
    <2>3. [link[st] EXCEPT !.account = g] \in Link /\ [link[st] EXCEPT !.account = g].browser = link[st].browser
      BY <2>2 DEF Link
    <2>4. link'[st] = [link[st] EXCEPT !.account = g] /\ \A x \in States : x # st => link'[x] = link[x]
      BY <2>1 DEF TypeOK
    <2>5. Grows
      BY <2>1, <2>3, <2>4 DEF Grows
    <2> QED
      BY <2>1, <2>5, QuietKeeps DEF Goes
  <1>3. ASSUME NEW i \in Instances, Cleanup(i) \/ Restart(i)
        PROVE  IInv'
    <2>1. UNCHANGED <<users, link, born, browser>>
      BY <1>3 DEF Cleanup, Restart
    <2>2. \A j \in Instances, x \in States : states'[j][x] # None => states[j][x] # None
      <3>1. CASE Cleanup(i)
        BY <3>1 DEF Cleanup, TypeOK
      <3>2. CASE Restart(i)
        BY <3>2 DEF Restart, TypeOK
      <3> QED
        BY <1>3, <3>1, <3>2
    <2>3. \A r \in Procs : Goes(r)
      BY <1>3 DEF Cleanup, Restart, Goes
    <2> QED
      BY <2>1, <2>2, <2>3, QuietKeeps DEF Grows
  <1> QED
    BY <1>1, <1>2, <1>3, LoginKeeps, CallbackKeeps, CallbackStepKeeps, ExchangeKeeps DEF Next

\* Whose a state, a callback and a session are is never confused.
THEOREM InvHolds == Spec => []IInv
PROOF
  <1>1. Init => IInv
    BY IdleType DEF Init, IInv, Issued, Cookies, Callbacks, Made, Alone, Account
  <1>2. TypeOK /\ IInv /\ [Next]_vars => IInv'
    BY StepKeeps
  <1> QED
    BY <1>1, <1>2, TypeCorrect, PTL DEF Spec

\* ValidateAndConsumeOAuthState: the state of a login is accepted once, so at most one
\* callback goes on with it and at most one session comes of it, for any number of
\* instances, restarts and repeated callbacks.
THEOREM StateOnceHolds == Spec => []StateOnce
PROOF
  <1>1. ASSUME TypeOK, IInv
        PROVE  StateOnce
    <2>1. ASSUME NEW s \in Sessions, born[s] # None, NEW p \in Procs, proc[p].state = born[s].state
          PROVE  proc[p].session = s
      <3>1. proc[p].pc = "answer"
        BY <1>1, <2>1 DEF IInv, Callbacks
      <3>2. /\ proc[p].session \in Sessions /\ born[proc[p].session] # None
            /\ born[proc[p].session].state = born[s].state
        BY <1>1, <2>1, <3>1, Facts DEF IInv, Callbacks
      <3> QED
        BY <1>1, <2>1, <3>2 DEF IInv, Alone
    <2> QED
      BY <1>1, <2>1 DEF IInv, Alone, StateOnce
  <1> QED
    BY <1>1, TypeCorrect, InvHolds, PTL

\* The session of a browser and the token of its app come from a login of that browser
\* and are those of the account that signed in at Google, however callbacks overlap.
THEOREM OwnSessionHolds == Spec => []OwnSession
PROOF
  <1>1. ASSUME TypeOK, IInv
        PROVE  OwnSession
    <2>1. SUFFICES ASSUME NEW b \in Browsers, NEW s \in {browser[b].session, browser[b].token} \ {None}
                   PROVE  /\ link[born[s].state].browser = b
                          /\ users[born[s].user] = link[born[s].state].account
      BY DEF OwnSession
    <2>2. s \in Sessions /\ born[s] # None /\ link[born[s].state].browser = b
      BY <1>1, Facts DEF IInv, Cookies
    <2> QED
      BY <1>1, <2>2 DEF IInv, Made
  <1> QED
    BY <1>1, TypeCorrect, InvHolds, PTL

\* UNIQUE google_id: on SQLite an account has one user, however many first logins
\* overlap and however often a lookup fails.
THEOREM OneUserHolds == Spec => []OneUser
PROOF
  <1>1. Init => OneUser
    BY DEF Init, OneUser
  <1>2. ASSUME TypeOK, OneUser, [Next]_vars
        PROVE  OneUser'
    <2>1. CASE UNCHANGED <<env, users>>
      BY <1>2, <2>1 DEF OneUser
    <2>2. ASSUME NEW p \in Procs, CreateUser(p)
          PROVE  OneUser'
      <3>1. PICK u \in UserIds : users[u] = None /\ users' = [users EXCEPT ![u] = Account(p)]
        BY <2>2, Zenon DEF CreateUser
      <3>2. users'[u] = Account(p) /\ \A v \in UserIds : v # u => users'[v] = users[v]
        BY <1>2, <3>1 DEF TypeOK
      <3>3. env' = env /\ (env.datastore \/ \A v \in UserIds : users[v] # Account(p))
        BY <2>2 DEF CreateUser, Known
      <3> QED
        BY <1>2, <3>2, <3>3 DEF OneUser
    <2>3. UNCHANGED <<env, users>> \/ \E p \in Procs : CreateUser(p)
      BY <1>2, ZenonT(60) DEF Next, vars, Login, Consent, Callback, CallbackStep, CallbackError, Exchange,
                  GetUserByGoogleID, DeleteOldSession, CreateSession, SetSessionCookie,
                  CreateAuthCode, ExchangeAuthCode, Cleanup, Restart, Tick
    <2> QED
      BY <2>1, <2>2, <2>3
  <1> QED
    BY <1>1, <1>2, TypeCorrect, PTL DEF Spec

-----------------------------------------------------------------------------
(* The one-time codes.                                                       *)

\* A code is in the memory of one instance, was not exchanged and knows its time; a
\* callback that is about to make a code is the first to do so for its session.
CodeInv ==
    /\ \A i \in Instances, s \in Sessions : codes[i][s] # None =>
         /\ swap[s].times = 0 /\ codes[i][s] = swap[s].at + CodeTTL
         /\ \A j \in Instances : codes[j][s] # None => j = i
    /\ \A s \in Sessions : swap[s] # None =>
         /\ born[s] # None
         /\ \A p \in Procs : proc[p].state # born[s].state

\* What CodeOnce allows a step to do.
CodeStep ==
    \A s \in Sessions :
      swap[s] # None /\ swap'[s] # swap[s] => swap[s].times = 0 /\ now <= swap[s].at + CodeTTL

\* Where a callback has its state from: it had it before, or it took it out of memory.
LEMMA StateFrom ==
  ASSUME TypeOK, IInv, [Next]_vars
  PROVE  /\ \A p \in Procs : \/ proc'[p].state = proc[p].state \/ proc'[p].state = None
                             \/ \E i \in Instances : states[i][proc'[p].state] # None
                                                        /\ proc'[p].state \in States
         /\ \A s \in Sessions : born[s] # None => born'[s] = born[s]
PROOF
  <1>1. CASE UNCHANGED <<proc, born>>
    BY <1>1
  <1>2. ASSUME NEW p \in Procs, NEW b \in Browsers, NEW i \in Instances, NEW st \in States,
               Callback(p, b, i, st), Accepted(b, i, st)
        PROVE  /\ \A r \in Procs : r # p => proc'[r] = proc[r]
               /\ proc'[p].state = st /\ states[i][st] # None /\ born' = born
    BY <1>2 DEF Callback, Accepted, TypeOK, Idle
  <1>3. ASSUME NEW p \in Procs, CallbackStep(p)
        PROVE  /\ \A r \in Procs : proc'[r].state \in {proc[r].state, None}
               /\ \A s \in Sessions : born[s] # None => born'[s] = born[s]
    <2>1. proc[p] \in Proc /\ proc \in [Procs -> Proc] /\ born \in [Sessions -> [state: States, user: UserIds] \cup {None}]
      BY DEF TypeOK
    <2>2. \A r \in Procs : r # p => proc'[r] = proc[r]
      BY <1>3, <2>1 DEF CallbackStep, CallbackError, Exchange, GetUserByGoogleID, CreateUser,
           DeleteOldSession, CreateSession, SetSessionCookie, CreateAuthCode, Answered
    <2>3. proc'[p].state \in {proc[p].state, None}
      <3>1. CASE proc'[p] = Idle
        BY <3>1, IdleType
      <3>2. CASE proc'[p] # Idle
        <4>1. CASE Exchange(p) \/ DeleteOldSession(p)
          BY <2>1, <4>1 DEF Exchange, DeleteOldSession, Proc
        <4>2. CASE GetUserByGoogleID(p) \/ CreateUser(p)
          BY <2>1, <4>2 DEF GetUserByGoogleID, CreateUser, Proc
        <4>3. CASE \E s \in Sessions : CreateSession(p, s)
          BY <2>1, <4>3 DEF CreateSession, Proc
        <4>4. CASE CallbackError(p) \/ SetSessionCookie(p) \/ CreateAuthCode(p)
          BY <2>1, <3>2, <4>4 DEF CallbackError, SetSessionCookie, CreateAuthCode, Answered
        <4> QED
          BY <1>3, <4>1, <4>2, <4>3, <4>4 DEF CallbackStep
      <3> QED
        BY <3>1, <3>2
    <2>4. \A s \in Sessions : born[s] # None => born'[s] = born[s]
      BY <1>3, <2>1 DEF CallbackStep, CallbackError, Exchange, GetUserByGoogleID, CreateUser,
           DeleteOldSession, CreateSession, SetSessionCookie, CreateAuthCode, Answered
    <2> QED
      BY <2>2, <2>3, <2>4
  <1>4. ASSUME NEW i \in Instances, Restart(i)
        PROVE  /\ \A r \in Procs : proc'[r].state \in {proc[r].state, None}
               /\ born' = born
    BY <1>4, IdleType DEF Restart
  <1>5. \/ UNCHANGED <<proc, born>>
        \/ \E p \in Procs, b \in Browsers, i \in Instances, st \in States :
             Callback(p, b, i, st) /\ Accepted(b, i, st)
        \/ \E p \in Procs : CallbackStep(p)
        \/ \E i \in Instances : Restart(i)
    BY ZenonT(60) DEF Next, vars, Login, Consent, Callback, ExchangeAuthCode, Cleanup, Tick
  <1>6. ASSUME NEW p \in Procs, NEW b \in Browsers, NEW i \in Instances, NEW st \in States,
               Callback(p, b, i, st), Accepted(b, i, st)
        PROVE  /\ \A r \in Procs : \/ proc'[r].state = proc[r].state \/ proc'[r].state = None
                                   \/ \E j \in Instances : states[j][proc'[r].state] # None
                                                              /\ proc'[r].state \in States
               /\ \A s \in Sessions : born[s] # None => born'[s] = born[s]
    BY <1>2, <1>6
  <1> QED
    BY <1>1, <1>3, <1>4, <1>5, <1>6

\* No callback comes to have the state of a session whose code was made.
LEMMA CodeSettled ==
  ASSUME TypeOK, IInv, CodeInv, [Next]_vars, NEW s \in Sessions, swap[s] # None
  PROVE  born'[s] # None /\ \A p \in Procs : proc'[p].state # born'[s].state
PROOF
  <1>1. born[s] # None /\ born'[s] = born[s] /\ born[s].state # None
    BY StateFrom, Facts DEF CodeInv
  <1>2. ASSUME NEW p \in Procs, proc'[p].state = born[s].state
        PROVE  FALSE
    <2>1. proc[p].state # born[s].state
      BY DEF CodeInv
    <2>2. PICK i \in Instances : states[i][born[s].state] # None /\ born[s].state \in States
      BY <1>1, <1>2, <2>1, StateFrom
    <2> QED
      BY <1>1, <2>2 DEF IInv, Issued
  <1> QED
    BY <1>1, <1>2

\* Every step keeps what is said of one-time codes.
LEMMA CodeKeeps ==
  ASSUME TypeOK, IInv, CodeInv, [Next]_vars
  PROVE  CodeInv' /\ CodeStep
PROOF
  <1>1. CASE /\ swap' = swap
             /\ \A i \in Instances, s \in Sessions : codes'[i][s] \in {codes[i][s], None}
    <2>1. CodeStep
      BY <1>1 DEF CodeStep
    <2>2. ASSUME NEW i \in Instances, NEW s \in Sessions, codes'[i][s] # None
          PROVE  /\ swap'[s].times = 0 /\ codes'[i][s] = swap'[s].at + CodeTTL
                 /\ \A j \in Instances : codes'[j][s] # None => j = i
      BY <1>1, <2>2 DEF CodeInv
    <2> QED
      BY <1>1, <2>1, <2>2, CodeSettled DEF CodeInv
  <1>2. ASSUME NEW p \in Procs, CreateAuthCode(p)
        PROVE  CodeInv' /\ CodeStep
    <2> DEFINE s == proc[p].session
               i == proc[p].inst
    <2>1. /\ proc[p].pc = "answer" /\ born' = born /\ proc'[p] = Idle
          /\ \A r \in Procs : r # p => proc'[r] = proc[r]
          /\ codes' = [codes EXCEPT ![i][s] = now + CodeTTL]
          /\ swap' = [swap EXCEPT ![s] = [at |-> now, times |-> 0]]
      BY <1>2 DEF CreateAuthCode, Answered, TypeOK
    <2>2. /\ s \in Sessions /\ born[s] # None /\ born[s].state = proc[p].state
          /\ proc[p].state # None
      BY <2>1, Facts DEF IInv, Callbacks
    <2>3. i \in Instances
      BY <2>1, ProcFields DEF TypeOK
    <2>4. swap[s] = None /\ \A j \in Instances : codes[j][s] = None
      BY <2>2 DEF CodeInv, TypeOK
    <2> HIDE DEF s, i
    <2>5. /\ swap'[s].at = now /\ swap'[s].times = 0 /\ \A x \in Sessions : x # s => swap'[x] = swap[x]
          /\ codes'[i][s] = now + CodeTTL
          /\ \A j \in Instances, x \in Sessions : ~(j = i /\ x = s) => codes'[j][x] = codes[j][x]
      BY <2>1, <2>2, <2>3 DEF TypeOK
    <2>6. CodeStep
      BY <2>4, <2>5 DEF CodeStep
    <2>7. ASSUME NEW j \in Instances, NEW x \in Sessions, codes'[j][x] # None
          PROVE  /\ swap'[x].times = 0 /\ codes'[j][x] = swap'[x].at + CodeTTL
                 /\ \A k \in Instances : codes'[k][x] # None => k = j
      <3>1. CASE x = s
        BY <2>4, <2>5, <2>7, <3>1
      <3>2. CASE x # s
        BY <2>5, <2>7, <3>2 DEF CodeInv
      <3> QED
        BY <3>1, <3>2
    <2>8. ASSUME NEW x \in Sessions, swap'[x] # None
          PROVE  born'[x] # None /\ \A r \in Procs : proc'[r].state # born'[x].state
      <3>1. CASE x = s
        <4>1. \A r \in Procs : r # p => proc[r].state # proc[p].state
          BY <2>1 DEF IInv, Alone
        <4> QED
          BY <2>1, <2>2, <3>1, <4>1, IdleType
      <3>2. CASE x # s
        BY <2>5, <2>8, <3>2, CodeSettled
      <3> QED
        BY <3>1, <3>2
    <2> QED
      BY <2>6, <2>7, <2>8 DEF CodeInv
  <1>3. ASSUME NEW b \in Browsers, NEW i \in Instances, ExchangeAuthCode(b, i)
        PROVE  CodeInv' /\ CodeStep
    <2> DEFINE s == browser[b].code
               ok == codes[i][s] # None /\ now <= codes[i][s]
    <2>1. /\ codes' = [codes EXCEPT ![i][s] = None]
          /\ swap' = IF ok THEN [swap EXCEPT ![s].times = @ + 1] ELSE swap
          /\ s \in Sessions
      BY <1>3, Facts DEF ExchangeAuthCode
    <2> HIDE DEF s
    <2>2. /\ codes'[i][s] = None
          /\ \A j \in Instances, x \in Sessions : codes'[j][x] \in {codes[j][x], None}
      BY <2>1 DEF TypeOK
    <2>3. /\ \A x \in Sessions : x # s => swap'[x] = swap[x]
          /\ ~ok => swap'[s] = swap[s]
      BY <2>1 DEF TypeOK
    <2>4. ok => swap[s] # None /\ swap[s].times = 0 /\ now <= swap[s].at + CodeTTL
                  /\ \A j \in Instances : codes'[j][s] = None
      <3>1. SUFFICES ASSUME ok
                     PROVE  swap[s] # None /\ swap[s].times = 0 /\ now <= swap[s].at + CodeTTL
                              /\ \A j \in Instances : codes'[j][s] = None
        OBVIOUS
      <3>2. swap[s] # None
        BY <2>1, <3>1 DEF TypeOK
      <3> QED
        BY <2>1, <2>2, <3>1, <3>2 DEF CodeInv
    <2> HIDE DEF ok
    <2>5. CodeStep
      BY <2>3, <2>4 DEF CodeStep
    <2>6. ASSUME NEW j \in Instances, NEW x \in Sessions, codes'[j][x] # None
          PROVE  /\ swap'[x].times = 0 /\ codes'[j][x] = swap'[x].at + CodeTTL
                 /\ \A k \in Instances : codes'[k][x] # None => k = j
      <3>1. swap'[x] = swap[x]
        BY <2>3, <2>4, <2>6
      <3> QED
        BY <2>2, <2>6, <3>1 DEF CodeInv
    <2>7. \A x \in Sessions : swap'[x] # None => swap[x] # None
      BY <2>3, <2>4
    <2> QED
      BY <2>5, <2>6, <2>7, CodeSettled DEF CodeInv
  <1>4. ASSUME NEW i \in Instances, Cleanup(i) \/ Restart(i)
        PROVE  /\ swap' = swap
               /\ \A j \in Instances, s \in Sessions : codes'[j][s] \in {codes[j][s], None}
    <2>1. CASE Cleanup(i)
      BY <2>1 DEF Cleanup, TypeOK
    <2>2. CASE Restart(i)
      BY <2>2 DEF Restart, TypeOK
    <2> QED
      BY <1>4, <2>1, <2>2
  <1>5. \/ UNCHANGED <<swap, codes>>
        \/ \E p \in Procs : CreateAuthCode(p)
        \/ \E b \in Browsers, i \in Instances : ExchangeAuthCode(b, i)
        \/ \E i \in Instances : Cleanup(i) \/ Restart(i)
    BY ZenonT(60) DEF Next, vars, Login, Consent, Callback, CallbackStep, CallbackError, Exchange,
           GetUserByGoogleID, CreateUser, DeleteOldSession, CreateSession, SetSessionCookie, Tick
  <1> QED
    BY <1>1, <1>2, <1>3, <1>4, <1>5

\* What is said of the codes holds in every reachable state.
THEOREM CodesHold == Spec => []CodeInv
PROOF
  <1>1. Init => CodeInv
    BY DEF Init, CodeInv
  <1>2. TypeOK /\ IInv /\ CodeInv /\ [Next]_vars => CodeInv'
    BY CodeKeeps
  <1> QED
    BY <1>1, <1>2, TypeCorrect, InvHolds, PTL DEF Spec

\* ExchangeAuthCode: a code is exchanged at most once and within its two minutes, for any
\* number of instances, apps and repeated requests.
THEOREM CodeOnceHolds == Spec => CodeOnce
PROOF
  <1>1. TypeOK /\ IInv /\ CodeInv /\ [Next]_vars => [CodeStep]_vars
    BY CodeKeeps
  <1> QED
    BY <1>1, TypeCorrect, InvHolds, CodesHold, PTL DEF Spec, CodeOnce, CodeStep

-----------------------------------------------------------------------------
(* Signing in implements SignIn.                                             *)

\* What is seen of the logins does not change as long as nobody begins or answers one.
LEMMA LoginsSeen ==
  ASSUME TypeOK, \A st \in States : /\ link'[st] = None <=> link[st] = None
                                    /\ link[st] # None => /\ link'[st].browser = link[st].browser
                                                          /\ link'[st].account = link[st].account
  PROVE  LoginView' = LoginView
PROOF
  BY DEF LoginView

\* What is seen of the sessions does not change as long as none is made: no user goes over
\* to another account.
LEMMA SessionsSeen ==
  ASSUME TypeOK, IInv, born' = born, \A u \in UserIds : users[u] # None => users'[u] = users[u]
  PROVE  SessionView' = SessionView
PROOF
  <1>1. ASSUME NEW s \in Sessions, born[s] # None
        PROVE  users'[born[s].user] = users[born[s].user]
    <2>1. /\ users[born[s].user] = link[born[s].state].account
          /\ link[born[s].state].account # None /\ born[s].user \in UserIds
      BY <1>1, Facts DEF IInv, Made
    <2> QED
      BY <2>1
  <1>2. \A s \in Sessions : (IF born'[s] = None THEN None
                             ELSE [login |-> born'[s].state, account |-> users'[born'[s].user]])
                            = (IF born[s] = None THEN None
                               ELSE [login |-> born[s].state, account |-> users[born[s].user]])
    BY <1>1
  <1> QED
    BY <1>2 DEF SessionView

\* A session that was made is seen.
LEMMA SessionsThere ==
  ASSUME TypeOK, IInv, NEW s \in Sessions, born[s] # None
  PROVE  SessionView[s] # None /\ SessionView[s].login = born[s].state
PROOF
  <1>1. SessionView[s] = [login |-> born[s].state, account |-> users[born[s].user]]
    BY DEF SessionView
  <1>2. born[s].state \in States /\ born[s].user \in UserIds /\ users[born[s].user] \in Accounts
    <2>1. born[s].state \in States /\ born[s].user \in UserIds
      BY Facts
    <2>2. users[born[s].user] # None
      BY DEF IInv, Made
    <2>3. \A u \in UserIds : users[u] \in Accounts \cup {None}
      BY DEF TypeOK
    <2> QED
      BY <2>1, <2>2, <2>3
  <1> QED
    BY <1>1, <1>2, NoneAssumption

\* Nor does what is seen of a browser when only its state and its code change.
LEMMA HoldsSeen ==
  ASSUME TypeOK, \A b \in Browsers : /\ browser'[b].session = browser[b].session
                                     /\ browser'[b].token = browser[b].token
  PROVE  HoldView' = HoldView
PROOF
  BY DEF HoldView

\* The answer to a callback, with what the browser gets.
LEMMA AnswerSeen ==
  ASSUME TypeOK, NEW p \in Procs, NEW c \in Browser, Answered(p, c), proc[p].pc # "idle"
  PROVE  HoldView' = [HoldView EXCEPT ![proc[p].browser] = [session |-> c.session, token |-> c.token]]
PROOF
  <1>1. proc[p].browser \in Browsers
    BY Facts
  <1>2. browser' = [browser EXCEPT ![proc[p].browser] = [c EXCEPT !.state = None]]
    BY DEF Answered
  <1>3. \A b \in Browsers : browser'[b] = IF b = proc[p].browser THEN [c EXCEPT !.state = None]
                                                              ELSE browser[b]
    BY <1>1, <1>2 DEF TypeOK
  <1>4. [c EXCEPT !.state = None].session = c.session /\ [c EXCEPT !.state = None].token = c.token
    BY DEF Browser
  <1> QED
    BY <1>1, <1>3, <1>4 DEF HoldView

\* Login begins a login of the promise.
LEMMA LoginBegins ==
  ASSUME TypeOK, IInv, NEW b \in Browsers, NEW i \in Instances, NEW st \in States,
         NEW mobile \in BOOLEAN, Login(b, i, st, mobile)
  PROVE  Promise!Next
PROOF
  <1>1. /\ link[st] = None /\ UNCHANGED <<now, users, born, swap>>
        /\ link' = [link EXCEPT ![st] = [browser |-> b, account |-> None, spent |-> FALSE]]
        /\ browser' = [browser EXCEPT ![b].state = st]
    BY DEF Login
  <1>2. /\ link'[st] = [browser |-> b, account |-> None, spent |-> FALSE] /\ link'[st] # None
        /\ \A x \in States : x # st => link'[x] = link[x]
    <2>1. link'[st] = [browser |-> b, account |-> None, spent |-> FALSE]
      BY <1>1 DEF TypeOK
    <2>2. [browser |-> b, account |-> None, spent |-> FALSE] \in Link
      BY DEF Link
    <2>3. link'[st] # None
      BY <2>1, <2>2, NoneAssumption
    <2> QED
      BY <1>1, <2>1, <2>3 DEF TypeOK
  <1>3. LoginView[st] = None
    BY <1>1 DEF LoginView
  <1>4. LoginView' = [LoginView EXCEPT ![st] = [browser |-> b, account |-> None]]
    <2>1. link'[st].browser = b /\ link'[st].account = None
      BY <1>2
    <2>2. LoginView'[st] = [browser |-> b, account |-> None]
      BY <1>2, <2>1 DEF LoginView
    <2>3. \A x \in States : x # st => LoginView'[x] = LoginView[x]
      BY <1>2 DEF LoginView
    <2>4. LoginView = [x \in States |-> LoginView[x]] /\ LoginView' = [x \in States |-> LoginView'[x]]
      BY DEF LoginView
    <2> HIDE DEF LoginView
    <2> QED
      BY <2>2, <2>3, <2>4
  <1>5. HoldView' = HoldView
    <2>1. \A c \in Browsers : browser[c] \in Browser
      BY DEF TypeOK
    <2>2. \A c \in Browsers : browser'[c] = IF c = b THEN [browser[b] EXCEPT !.state = st] ELSE browser[c]
      BY <1>1 DEF TypeOK
    <2>3. \A c \in Browsers : browser'[c].session = browser[c].session /\ browser'[c].token = browser[c].token
      BY <2>1, <2>2 DEF Browser
    <2> QED
      BY <2>3, HoldsSeen
  <1>6. SessionView' = SessionView
    BY <1>1, SessionsSeen
  <1>7. Promise!Begin(st, b)
    BY <1>1, <1>3, <1>4, <1>5, <1>6 DEF Promise!Begin
  <1> QED
    BY <1>7 DEF Promise!Next

\* The person at Google.
LEMMA ConsentAnswers ==
  ASSUME TypeOK, IInv, NEW st \in States, NEW g \in Accounts, Consent(st, g)
  PROVE  Promise!Next
PROOF
  <1>1. /\ link[st] # None /\ link[st].account = None /\ UNCHANGED <<now, users, browser, born, swap>>
        /\ link' = [link EXCEPT ![st].account = g]
    BY DEF Consent
  <1>2. link[st] \in Link
    BY <1>1 DEF TypeOK
  <1>3. /\ link'[st] # None /\ link'[st].browser = link[st].browser /\ link'[st].account = g
        /\ \A x \in States : x # st => link'[x] = link[x]
    <2>1. link'[st] = [link[st] EXCEPT !.account = g]
      BY <1>1 DEF TypeOK
    <2>2. link'[st] \in Link /\ link'[st].browser = link[st].browser /\ link'[st].account = g
      BY <1>2, <2>1 DEF Link
    <2> QED
      BY <1>1, <2>2, NoneAssumption DEF TypeOK
  <1>4. LoginView[st] = [browser |-> link[st].browser, account |-> None]
    BY <1>1 DEF LoginView
  <1>5. LoginView[st] # None
    <2>1. LoginView[st] \in [browser: Browsers, account: Accounts \cup {None}]
      BY <1>2, <1>4 DEF Link
    <2> QED
      BY <2>1, NoneAssumption
  <1>6. LoginView' = [LoginView EXCEPT ![st].account = g]
    BY <1>1, <1>3, <1>4 DEF LoginView
  <1>7. HoldView' = HoldView /\ SessionView' = SessionView
    BY <1>1, SessionsSeen DEF HoldView
  <1>8. Promise!Consent(st, g)
    BY <1>1, <1>4, <1>5, <1>6, <1>7 DEF Promise!Consent
  <1> QED
    BY <1>8 DEF Promise!Next

\* The steps of a callback that make or deliver nothing: an error, the exchange of Google's
\* code, finding or creating the user, the end of the old session.
LEMMA CallbackHides ==
  ASSUME TypeOK, IInv, NEW p \in Procs,
         CallbackError(p) \/ Exchange(p) \/ GetUserByGoogleID(p) \/ CreateUser(p) \/ DeleteOldSession(p)
  PROVE  UNCHANGED Promise!vars
PROOF
  <1>1. UNCHANGED <<now, born, swap>>
    BY DEF CallbackError, Exchange, GetUserByGoogleID, CreateUser, DeleteOldSession
  <1>2. LoginView' = LoginView
    <2>1. CASE Exchange(p)
      <3>1. link' = [link EXCEPT ![proc[p].state].spent = TRUE] /\ proc[p].state \in States
        BY <2>1, Facts DEF Exchange
      <3>2. link[proc[p].state] \in Link
        BY <2>1, Facts DEF Exchange, TypeOK
      <3>3. /\ link'[proc[p].state] = [link[proc[p].state] EXCEPT !.spent = TRUE]
            /\ \A x \in States : x # proc[p].state => link'[x] = link[x]
        BY <3>1 DEF TypeOK
      <3>4. /\ link'[proc[p].state] # None /\ link[proc[p].state] # None
            /\ link'[proc[p].state].browser = link[proc[p].state].browser
            /\ link'[proc[p].state].account = link[proc[p].state].account
        BY <3>2, <3>3, NoneAssumption DEF Link
      <3> QED
        BY <3>3, <3>4, LoginsSeen
    <2>2. CASE link' = link
      BY <2>2 DEF LoginView
    <2> QED
      BY <2>1, <2>2 DEF CallbackError, GetUserByGoogleID, CreateUser, DeleteOldSession
  <1>3. SessionView' = SessionView
    <2>1. CASE CreateUser(p)
      <3>1. PICK u \in UserIds : users[u] = None /\ users' = [users EXCEPT ![u] = Account(p)]
        BY <2>1, Zenon DEF CreateUser
      <3>2. \A v \in UserIds : users[v] # None => users'[v] = users[v]
        BY <3>1 DEF TypeOK
      <3> QED
        BY <1>1, <3>2, SessionsSeen
    <2>2. CASE users' = users
      BY <1>1, <2>2, SessionsSeen
    <2> QED
      BY <2>1, <2>2 DEF CallbackError, Exchange, GetUserByGoogleID, DeleteOldSession
  <1>4. HoldView' = HoldView
    <2>1. CASE CallbackError(p)
      <3>1. proc[p].pc # "idle" /\ Answered(p, browser[proc[p].browser])
        BY <2>1 DEF CallbackError
      <3>2. proc[p].browser \in Browsers /\ browser[proc[p].browser] \in Browser
        BY <3>1, Facts DEF TypeOK
      <3>3. HoldView' = [HoldView EXCEPT ![proc[p].browser] =
                           [session |-> browser[proc[p].browser].session,
                            token |-> browser[proc[p].browser].token]]
        BY <3>1, <3>2, AnswerSeen
      <3> QED
        BY <3>2, <3>3 DEF HoldView
    <2>2. CASE browser' = browser
      BY <2>2 DEF HoldView
    <2> QED
      BY <2>1, <2>2 DEF Exchange, GetUserByGoogleID, CreateUser, DeleteOldSession
  <1> QED
    BY <1>1, <1>2, <1>3, <1>4 DEF Promise!vars

\* CreateSession makes the one session of the login, of the account that signed in.
LEMMA SessionIsMade ==
  ASSUME TypeOK, IInv, NEW p \in Procs, NEW s \in Sessions, CreateSession(p, s)
  PROVE  Promise!Next
PROOF
  <1> DEFINE st == proc[p].state
             u  == proc[p].user
  <1>1. /\ proc[p].pc = "session" /\ born[s] = None
        /\ UNCHANGED <<now, users, browser, link, swap>>
        /\ born' = [born EXCEPT ![s] = [state |-> st, user |-> u]]
    BY DEF CreateSession
  <1>2. /\ st \in States /\ u \in UserIds /\ link[st] # None /\ link[st].account # None
        /\ users[u] = link[st].account
        /\ \A t \in Sessions : born[t] # None => born[t].state # st
    <2>1. st \in States /\ u \in UserIds /\ u # None /\ link[st] # None
      BY <1>1, Facts, NoneAssumption
    <2> QED
      BY <1>1, <2>1 DEF IInv, Callbacks, Account
  <1> HIDE DEF st, u
  <1>3. LoginView[st] = [browser |-> link[st].browser, account |-> link[st].account]
    BY <1>2 DEF LoginView
  <1>4. LoginView[st] # None
    <2>1. link[st] \in Link
      BY <1>2 DEF TypeOK
    <2>2. LoginView[st] \in [browser: Browsers, account: Accounts \cup {None}]
      BY <1>3, <2>1 DEF Link
    <2> QED
      BY <2>2, NoneAssumption
  <1>5. SessionView[s] = None
    BY <1>1 DEF SessionView
  <1>6. \A t \in Sessions : SessionView[t] # None => SessionView[t].login # st
    BY <1>2 DEF SessionView
  <1>7. born'[s] = [state |-> st, user |-> u] /\ born'[s] # None /\ \A t \in Sessions : t # s => born'[t] = born[t]
    <2>1. born'[s] = [state |-> st, user |-> u] /\ \A t \in Sessions : t # s => born'[t] = born[t]
      BY <1>1 DEF TypeOK
    <2> QED
      BY <1>2, <2>1, NoneAssumption
  <1>8. SessionView' = [SessionView EXCEPT ![s] = [login |-> st, account |-> LoginView[st].account]]
    <2>1. born'[s].state = st /\ born'[s].user = u /\ LoginView[st].account = users'[u]
      BY <1>1, <1>2, <1>3, <1>7
    <2>2. SessionView'[s] = [login |-> st, account |-> LoginView[st].account]
      BY <1>7, <2>1 DEF SessionView
    <2>3. \A t \in Sessions : t # s => SessionView'[t] = SessionView[t]
      BY <1>1, <1>7 DEF SessionView
    <2>4. /\ SessionView = [t \in Sessions |-> SessionView[t]]
          /\ SessionView' = [t \in Sessions |-> SessionView'[t]]
      BY DEF SessionView
    <2> QED
      BY <2>2, <2>3, <2>4
  <1>9. LoginView' = LoginView /\ HoldView' = HoldView
    BY <1>1 DEF LoginView, HoldView
  <1>10. Promise!Make(s, st)
    BY <1>1, <1>2, <1>3, <1>4, <1>5, <1>6, <1>8, <1>9 DEF Promise!Make
  <1> QED
    BY <1>2, <1>10 DEF Promise!Next

\* Whose the session is that a callback answers with; no code was made for it yet.
LEMMA AnswerOwns ==
  ASSUME TypeOK, IInv, CodeInv, NEW p \in Procs, proc[p].pc = "answer"
  PROVE  /\ proc[p].session \in Sessions /\ SessionView[proc[p].session] # None
         /\ Promise!Owner(proc[p].session) = proc[p].browser
         /\ swap[proc[p].session] = None
PROOF
  <1> DEFINE s == proc[p].session
  <1>1. /\ s \in Sessions /\ born[s] # None /\ born[s].state = proc[p].state
        /\ proc[p].state \in States /\ link[proc[p].state] # None
        /\ link[proc[p].state].browser = proc[p].browser
    BY Facts DEF IInv, Callbacks
  <1> HIDE DEF s
  <1>2. SessionView[s] # None /\ SessionView[s].login = proc[p].state
    BY <1>1, SessionsThere
  <1>3. LoginView[proc[p].state].browser = proc[p].browser
    BY <1>1 DEF LoginView
  <1>4. swap[s] = None
    BY <1>1 DEF CodeInv
  <1> QED
    BY <1>1, <1>2, <1>3, <1>4 DEF Promise!Owner, s

\* SetSessionCookie delivers the session; CreateAuthCode offers it to the app.
LEMMA AnswerDelivers ==
  ASSUME TypeOK, IInv, CodeInv, NEW p \in Procs, SetSessionCookie(p) \/ CreateAuthCode(p)
  PROVE  Promise!Next
PROOF
  <1> DEFINE s == proc[p].session
             b == proc[p].browser
  <1>1. proc[p].pc = "answer" /\ UNCHANGED <<now, users, link, born>>
    BY DEF SetSessionCookie, CreateAuthCode
  <1>2. /\ s \in Sessions /\ SessionView[s] # None /\ Promise!Owner(s) = b
        /\ swap[s] = None
    BY <1>1, AnswerOwns
  <1>3. b \in Browsers /\ browser[b] \in Browser
    BY <1>1, Facts DEF TypeOK
  <1>4. LoginView' = LoginView /\ SessionView' = SessionView
    BY <1>1, SessionsSeen DEF LoginView
  <1>5. CASE SetSessionCookie(p)
    <2> DEFINE c == [browser[b] EXCEPT !.session = s]
    <2>1. Answered(p, c) /\ swap' = swap
      BY <1>5 DEF SetSessionCookie
    <2>2. c \in Browser /\ c.session = s /\ c.token = browser[b].token
      BY <1>2, <1>3 DEF Browser
    <2> HIDE DEF c
    <2>3. HoldView' = [HoldView EXCEPT ![b] = [session |-> s, token |-> browser[b].token]]
      BY <1>1, <2>1, <2>2, AnswerSeen
    <2>4. HoldView' = [HoldView EXCEPT ![b].session = s]
      BY <1>3, <2>3 DEF HoldView
    <2> HIDE DEF s, b
    <2>5. Promise!Deliver(s)
      BY <1>1, <1>2, <1>4, <2>1, <2>4 DEF Promise!Deliver
    <2> QED
      BY <1>2, <2>5 DEF Promise!Next
  <1>6. CASE CreateAuthCode(p)
    <2> DEFINE c == [browser[b] EXCEPT !.code = s]
    <2>1. /\ Answered(p, c)
          /\ swap' = [swap EXCEPT ![s] = [at |-> now, times |-> 0]]
      BY <1>6 DEF CreateAuthCode
    <2>2. c \in Browser /\ c.session = browser[b].session /\ c.token = browser[b].token
      BY <1>2, <1>3 DEF Browser
    <2> HIDE DEF c
    <2>3. HoldView' = [HoldView EXCEPT ![b] = [session |-> browser[b].session, token |-> browser[b].token]]
      BY <1>1, <2>1, <2>2, AnswerSeen
    <2>4. HoldView' = HoldView
      BY <1>3, <2>3 DEF HoldView
    <2> HIDE DEF s, b
    <2>5. Promise!Offer(s)
      BY <1>1, <1>2, <1>4, <2>1, <2>4 DEF Promise!Offer
    <2> QED
      BY <1>2, <2>5 DEF Promise!Next
  <1> QED
    BY <1>5, <1>6

\* ExchangeAuthCode redeems the code when it is good, and does nothing to be seen otherwise.
LEMMA ExchangeRedeems ==
  ASSUME TypeOK, IInv, CodeInv, NEW b \in Browsers, NEW i \in Instances, ExchangeAuthCode(b, i)
  PROVE  [Promise!Next]_Promise!vars
PROOF
  <1> DEFINE s  == browser[b].code
             ok == codes[i][s] # None /\ now <= codes[i][s]
  <1>1. /\ s # None /\ UNCHANGED <<now, users, link, born>>
        /\ swap' = IF ok THEN [swap EXCEPT ![s].times = @ + 1] ELSE swap
        /\ \/ browser' = [browser EXCEPT ![b].code = None, ![b].token = IF ok THEN s ELSE @]
           \/ browser' = browser
    BY DEF ExchangeAuthCode
  <1>2. s \in Sessions /\ born[s] # None /\ link[born[s].state].browser = b
    BY <1>1, Facts DEF IInv, Cookies
  <1>3. LoginView' = LoginView /\ SessionView' = SessionView
    BY <1>1, SessionsSeen DEF LoginView
  <1>4. browser[b] \in Browser
    BY DEF TypeOK
  <1> HIDE DEF s
  <1>5. CASE ~ok
    <2>1. browser' = browser \/ browser' = [browser EXCEPT ![b].code = None, ![b].token = @]
      BY <1>1, <1>5
    <2>2. \A c \in Browsers : browser'[c].session = browser[c].session /\ browser'[c].token = browser[c].token
      <3>1. CASE browser' = browser
        BY <3>1
      <3>2. CASE browser' = [browser EXCEPT ![b].code = None, ![b].token = @]
        <4>1. \A c \in Browsers : c # b => browser'[c] = browser[c]
          BY <3>2 DEF TypeOK
        <4>2. browser'[b] = [browser[b] EXCEPT !.code = None, !.token = @]
          BY <3>2 DEF TypeOK
        <4>3. browser'[b].session = browser[b].session /\ browser'[b].token = browser[b].token
          BY <1>4, <4>2 DEF Browser
        <4> QED
          BY <4>1, <4>3
      <3> QED
        BY <2>1, <3>1, <3>2
    <2>3. HoldView' = HoldView
      BY <2>2, HoldsSeen
    <2>4. swap' = swap
      BY <1>1, <1>5
    <2> QED
      BY <1>1, <1>3, <2>3, <2>4 DEF Promise!vars
  <1>6. CASE ok
    <2>1. swap[s] # None /\ swap[s].times = 0 /\ now <= swap[s].at + CodeTTL
      <3>1. swap[s] # None
        BY <1>2, <1>6 DEF TypeOK
      <3> QED
        BY <1>2, <1>6, <3>1 DEF CodeInv
    <2>2. swap' = [swap EXCEPT ![s].times = 1]
      <3>1. swap' = [swap EXCEPT ![s].times = @ + 1]
        BY <1>1, <1>6
      <3> QED
        BY <2>1, <3>1 DEF TypeOK
    <2>3. Promise!Owner(s) = b
      <3>1. born[s].state \in States /\ link[born[s].state] # None
        BY <1>2, Facts DEF IInv, Made
      <3>2. SessionView[s].login = born[s].state
        BY <1>2, SessionsThere
      <3>3. LoginView[born[s].state].browser = b
        BY <1>2, <3>1 DEF LoginView
      <3> QED
        BY <3>2, <3>3 DEF Promise!Owner
    <2>4. HoldView' = HoldView \/ HoldView' = [HoldView EXCEPT ![b].token = s]
      <3>1. CASE browser' = browser
        BY <3>1 DEF HoldView
      <3>2. CASE browser' = [browser EXCEPT ![b].code = None, ![b].token = s]
        <4>1. \A c \in Browsers : c # b => browser'[c] = browser[c]
          BY <3>2 DEF TypeOK
        <4>2. browser'[b] = [browser[b] EXCEPT !.code = None, !.token = s]
          BY <3>2 DEF TypeOK
        <4>3. browser'[b].session = browser[b].session /\ browser'[b].token = s
          BY <1>4, <4>2 DEF Browser
        <4> QED
          BY <4>1, <4>3 DEF HoldView
      <3> QED
        BY <1>1, <1>6, <3>1, <3>2
    <2> HIDE DEF ok
    <2>5. Promise!Redeem(s)
      BY <1>1, <1>3, <2>1, <2>2, <2>3, <2>4 DEF Promise!Redeem
    <2> QED
      BY <1>2, <2>5 DEF Promise!Next
  <1> QED
    BY <1>5, <1>6

\* Every step is one of the promise, or is not seen there.
LEMMA NextPromises ==
  ASSUME TypeOK, IInv, CodeInv, [Next]_vars
  PROVE  [Promise!Next]_Promise!vars
PROOF
  <1>1. CASE UNCHANGED <<now, users, browser, link, born, swap>>
    BY <1>1 DEF Promise!vars, LoginView, SessionView, HoldView
  <1>2. CASE Tick
    BY <1>2 DEF Tick, Promise!Next, Promise!Tick, LoginView, SessionView, HoldView
  <1>3. ASSUME NEW p \in Procs, CallbackStep(p)
        PROVE  [Promise!Next]_Promise!vars
    <2>1. CASE \/ CallbackError(p) \/ Exchange(p) \/ GetUserByGoogleID(p) \/ CreateUser(p)
               \/ DeleteOldSession(p)
      BY <2>1, CallbackHides
    <2>2. CASE SetSessionCookie(p) \/ CreateAuthCode(p)
      BY <2>2, AnswerDelivers
    <2>3. CASE \E s \in Sessions : CreateSession(p, s)
      BY <2>3, SessionIsMade
    <2> QED
      BY <1>3, <2>1, <2>2, <2>3 DEF CallbackStep
  <1>4. \/ UNCHANGED <<now, users, browser, link, born, swap>>
        \/ Tick
        \/ \E b \in Browsers, i \in Instances, st \in States, mobile \in BOOLEAN : Login(b, i, st, mobile)
        \/ \E st \in States, g \in Accounts : Consent(st, g)
        \/ \E p \in Procs : CallbackStep(p)
        \/ \E b \in Browsers, i \in Instances : ExchangeAuthCode(b, i)
    BY ZenonT(60) DEF Next, vars, Callback, Cleanup, Restart
  <1> QED
    BY <1>1, <1>2, <1>3, <1>4, LoginBegins, ConsentAnswers, ExchangeRedeems

\* States and codes in the memory of instances that restart, cookies, callbacks that
\* overlap and are repeated, users found or created: all of it implements SignIn, for any
\* number of browsers, instances, logins and callbacks.
THEOREM Refinement == Spec => ImplementsSignIn
PROOF
  <1>1. Init => Promise!Init
    BY DEF Init, Promise!Init, LoginView, SessionView, HoldView
  <1>2. TypeOK /\ IInv /\ CodeInv /\ [Next]_vars => [Promise!Next]_Promise!vars
    BY NextPromises
  <1> QED
    BY <1>1, <1>2, TypeCorrect, InvHolds, CodesHold, PTL DEF Spec, ImplementsSignIn, Promise!Spec
=============================================================================
