------------------------------ MODULE LoginFlow ------------------------------
(***************************************************************************)
(* Signing in: the OAuth states and the one-time codes that SessionManager *)
(* keeps in the memory of an instance, the Login, Callback and Token       *)
(* handlers, and HandleCallback, which finds or creates the user.          *)
(*                                                                         *)
(* Requests reach any instance, callbacks overlap and are repeated, an     *)
(* instance may stop at any step, and answers may be lost.  What becomes   *)
(* of a session afterwards is the subject of Sessions.                     *)
(***************************************************************************)
EXTENDS Naturals, FiniteSets

CONSTANTS
    Browsers, Instances, Accounts, UserIds,
    States,    \* OAuth states; bounds the logins
    Sessions,  \* session ids; a one-time code is named by its session
    Procs,     \* bounds the callbacks in progress
    StateTTL,  \* 10 minutes
    CodeTTL,   \* 2 minutes
    MaxTime,   \* bounds the clock
    Envs,      \* the deployments and workloads considered
    None

ASSUME TTLAssumption == {StateTTL, CodeTTL, MaxTime} \subseteq Nat

\* insts: the instances that run.  mobile: the clients in use.  clock: time passes.
\* crashes: instances stop.  faults: Google and the database may fail.
Env == [datastore: BOOLEAN, insts: SUBSET Instances, browsers: SUBSET Browsers,
        mobile: SUBSET BOOLEAN, clock: BOOLEAN, crashes: BOOLEAN, faults: BOOLEAN]

ASSUME EnvsAssumption == Envs \subseteq Env
VARIABLES
    env,      \* chosen when the server starts
    now,      \* the clock
    states,   \* oauthStates of every instance
    codes,    \* authCodes of every instance, by the session they stand for
    users,    \* users: the Google account of a user
    rows,     \* sessions: the user of a session
    browser,  \* what a browser, and the app it belongs to, hold
    proc,     \* the callbacks in progress
    link,     \* ghost: which browser asked for a state, and who answered at Google
    born,     \* ghost: the state and the user that a session was made for
    swap      \* ghost: when a code was made and how often it was exchanged

vars == <<env, now, states, codes, users, rows, browser, proc, link, born, swap>>

Entry   == [expires: Nat, mobile: BOOLEAN]
Browser == [state: States \cup {None}, session: Sessions \cup {None},
            code: Sessions \cup {None}, token: Sessions \cup {None}]
Proc    == [pc: {"idle", "google", "lookup", "create", "old", "session", "answer"},
            inst: Instances \cup {None}, browser: Browsers \cup {None},
            state: States \cup {None}, mobile: BOOLEAN, old: Sessions \cup {None},
            user: UserIds \cup {None}, session: Sessions \cup {None}]
\* spent: Google accepts its own code once.
Link    == [browser: Browsers, account: Accounts \cup {None}, spent: BOOLEAN]

ASSUME NoneAssumption ==
    /\ None \notin Browsers \cup Instances \cup Accounts \cup UserIds \cup States \cup Sessions
    /\ None \notin Entry \cup Link \cup Nat \cup [state: States, user: UserIds]
    /\ None \notin [at: Nat, times: Nat]
    /\ None \notin [browser: Browsers, account: Accounts \cup {None}] \cup [login: States, account: Accounts]

TypeOK ==
    /\ env \in Envs
    /\ now \in 0..MaxTime
    /\ states \in [Instances -> [States -> Entry \cup {None}]]
    /\ codes \in [Instances -> [Sessions -> Nat \cup {None}]]
    /\ users \in [UserIds -> Accounts \cup {None}]
    /\ rows \in [Sessions -> UserIds \cup {None}]
    /\ browser \in [Browsers -> Browser]
    /\ proc \in [Procs -> Proc]
    /\ link \in [States -> Link \cup {None}]
    /\ born \in [Sessions -> [state: States, user: UserIds] \cup {None}]
    /\ swap \in [Sessions -> [at: Nat, times: Nat] \cup {None}]
    /\ \A p \in Procs :
         /\ proc[p].pc # "idle" => /\ None \notin {proc[p].inst, proc[p].browser, proc[p].state}
                                   /\ link[proc[p].state] # None
         /\ proc[p].pc \in {"old", "session", "answer"} => proc[p].user # None
         /\ proc[p].pc = "answer" => proc[p].session # None
    /\ \A i \in Instances, s \in Sessions : codes[i][s] # None => swap[s] # None

Idle == [pc |-> "idle", inst |-> None, browser |-> None, state |-> None, mobile |-> FALSE,
         old |-> None, user |-> None, session |-> None]

Init ==
    /\ env \in Envs
    /\ now = 0
    /\ states = [i \in Instances |-> [st \in States |-> None]]
    /\ codes = [i \in Instances |-> [s \in Sessions |-> None]]
    /\ users = [u \in UserIds |-> None]
    /\ rows = [s \in Sessions |-> None]
    /\ browser = [b \in Browsers |-> [state |-> None, session |-> None, code |-> None, token |-> None]]
    /\ proc = [p \in Procs |-> Idle]
    /\ link = [st \in States |-> None]
    /\ born = [s \in Sessions |-> None]
    /\ swap = [s \in Sessions |-> None]

-----------------------------------------------------------------------------
(* Login, and the person at Google.                                          *)

\* StoreOAuthState and the state cookie, which replaces the one of an earlier login of
\* the browser.
Login(b, i, st, mobile) ==
    /\ b \in env.browsers /\ i \in env.insts /\ mobile \in env.mobile
    /\ link[st] = None
    /\ states' = [states EXCEPT ![i][st] = [expires |-> now + StateTTL, mobile |-> mobile]]
    /\ browser' = [browser EXCEPT ![b].state = st]
    /\ link' = [link EXCEPT ![st] = [browser |-> b, account |-> None, spent |-> FALSE]]
    /\ UNCHANGED <<env, now, codes, users, rows, proc, born, swap>>

\* Somebody signs in at Google with the url of the login.
Consent(st, g) ==
    /\ link[st] # None /\ link[st].account = None
    /\ link' = [link EXCEPT ![st].account = g]
    /\ UNCHANGED <<env, now, states, codes, users, rows, browser, proc, born, swap>>

-----------------------------------------------------------------------------
(* Callback.                                                                 *)

\* Mutant of Accepted: the state is not compared with the browser's cookie.
AcceptedAnywhere(b, i, st) == states[i][st] # None /\ now <= states[i][st].expires

\* The state is the one of the browser's cookie, known to this instance and not expired.
Accepted(b, i, st) ==
    browser[b].state = st /\ states[i][st] # None /\ now <= states[i][st].expires

\* Mutant of Consume: a state that is good stays.
ConsumeLate(b, i, st) ==
    IF browser[b].state = st /\ ~Accepted(b, i, st) THEN [states EXCEPT ![i][st] = None] ELSE states

\* ValidateAndConsumeOAuthState deletes the state, expired or not.
Consume(b, i, st) == IF browser[b].state = st THEN [states EXCEPT ![i][st] = None] ELSE states

\* Any browser may send the url that Google made, more than once.  It brings its state
\* cookie and its session cookie.
Callback(p, b, i, st) ==
    /\ proc[p].pc = "idle"
    /\ b \in env.browsers /\ i \in env.insts
    /\ link[st] # None
    /\ states' = Consume(b, i, st)
    /\ proc' = IF Accepted(b, i, st)
                 THEN [proc EXCEPT ![p] = [Idle EXCEPT !.pc = "google", !.inst = i, !.browser = b,
                                             !.state = st, !.mobile = states[i][st].mobile,
                                             !.old = browser[b].session]]
                 ELSE proc
    /\ UNCHANGED <<env, now, codes, users, rows, browser, link, born, swap>>

\* Every answer after the state was accepted clears the state cookie.
Answered(p, b) ==
    /\ proc' = [proc EXCEPT ![p] = Idle]
    /\ browser' = [browser EXCEPT ![proc[p].browser] = [b EXCEPT !.state = None]]

\* callbackError.
CallbackError(p) ==
    /\ proc[p].pc \in {"google", "create", "session"}
    /\ CASE proc[p].pc = "google" -> env.faults \/ link[proc[p].state].account = None
                                        \/ link[proc[p].state].spent
         [] proc[p].pc = "create" ->
              \/ env.faults
              \/ ~env.datastore /\ \E u \in UserIds : users[u] = link[proc[p].state].account
         [] proc[p].pc = "session" -> env.faults
    /\ Answered(p, browser[proc[p].browser])
    /\ UNCHANGED <<env, now, states, codes, users, rows, link, born, swap>>

Account(p) == link[proc[p].state].account
Known(p)   == {u \in UserIds : users[u] = Account(p)}

\* HandleCallback: Google's code becomes the account of the person.
Exchange(p) ==
    /\ proc[p].pc = "google"
    /\ Account(p) # None /\ ~link[proc[p].state].spent
    /\ link' = [link EXCEPT ![proc[p].state].spent = TRUE]
    /\ proc' = [proc EXCEPT ![p].pc = "lookup"]
    /\ UNCHANGED <<env, now, states, codes, users, rows, browser, born, swap>>

\* Mutant of GetUserByGoogleID: an error is not looked at.
LookupAnyway(p) ==
    /\ proc[p].pc = "lookup"
    /\ \/ \E u \in Known(p) : proc' = [proc EXCEPT ![p].pc = "old", ![p].user = u]
       \/ Known(p) = {} /\ proc' = [proc EXCEPT ![p].pc = "old"]
    /\ UNCHANGED <<env, now, states, codes, users, rows, browser, link, born, swap>>

\* Any error, not only "no rows", makes HandleCallback create the user.
GetUserByGoogleID(p) ==
    /\ proc[p].pc = "lookup"
    /\ \/ \E u \in Known(p) : proc' = [proc EXCEPT ![p].pc = "old", ![p].user = u]
       \/ /\ Known(p) = {} \/ env.faults
          /\ proc' = [proc EXCEPT ![p].pc = "create"]
    /\ UNCHANGED <<env, now, states, codes, users, rows, browser, link, born, swap>>

\* Mutant of CreateUser: google_id is not UNIQUE.
CreateUserAgain(p) ==
    /\ proc[p].pc = "create"
    /\ \E u \in UserIds :
         /\ users[u] = None
         /\ users' = [users EXCEPT ![u] = Account(p)]
         /\ proc' = [proc EXCEPT ![p].pc = "old", ![p].user = u]
    /\ UNCHANGED <<env, now, states, codes, rows, browser, link, born, swap>>

\* UNIQUE google_id on SQLite; Datastore takes every user.
CreateUser(p) ==
    /\ proc[p].pc = "create"
    /\ env.datastore \/ Known(p) = {}
    /\ \E u \in UserIds :
         /\ users[u] = None
         /\ users' = [users EXCEPT ![u] = Account(p)]
         /\ proc' = [proc EXCEPT ![p].pc = "old", ![p].user = u]
    /\ UNCHANGED <<env, now, states, codes, rows, browser, link, born, swap>>

\* The session that came with the request ends.
DeleteOldSession(p) ==
    /\ proc[p].pc = "old"
    /\ rows' = IF proc[p].old = None THEN rows ELSE [rows EXCEPT ![proc[p].old] = None]
    /\ proc' = [proc EXCEPT ![p].pc = "session"]
    /\ UNCHANGED <<env, now, states, codes, users, browser, link, born, swap>>

CreateSession(p, s) ==
    /\ proc[p].pc = "session"
    /\ born[s] = None
    /\ rows' = [rows EXCEPT ![s] = proc[p].user]
    /\ born' = [born EXCEPT ![s] = [state |-> proc[p].state, user |-> proc[p].user]]
    /\ proc' = [proc EXCEPT ![p].pc = "answer", ![p].session = s]
    /\ UNCHANGED <<env, now, states, codes, users, browser, link, swap>>

\* SetSessionCookie.
SetSessionCookie(p) ==
    /\ proc[p].pc = "answer" /\ ~proc[p].mobile
    /\ Answered(p, [browser[proc[p].browser] EXCEPT !.session = proc[p].session])
    /\ UNCHANGED <<env, now, states, codes, users, rows, link, born, swap>>

\* CreateAuthCode: the app gets a code, the browser no cookie.
CreateAuthCode(p) ==
    LET s == proc[p].session
    IN  /\ proc[p].pc = "answer" /\ proc[p].mobile
        /\ codes' = [codes EXCEPT ![proc[p].inst][s] = now + CodeTTL]
        /\ swap' = [swap EXCEPT ![s] = [at |-> now, times |-> 0]]
        /\ Answered(p, [browser[proc[p].browser] EXCEPT !.code = s])
        /\ UNCHANGED <<env, now, states, users, rows, link, born>>

-----------------------------------------------------------------------------
(* Token, clean-up and time.                                                 *)

\* Mutant of ExchangeAuthCode: the code is deleted when it has expired.
ExchangeAuthCodeAgain(b, i) ==
    LET s  == browser[b].code
        ok == codes[i][s] # None /\ now <= codes[i][s]
    IN  /\ i \in env.insts
        /\ s # None
        /\ codes' = IF ok THEN codes ELSE [codes EXCEPT ![i][s] = None]
        /\ swap' = IF ok THEN [swap EXCEPT ![s].times = @ + 1] ELSE swap
        /\ UNCHANGED <<env, now, states, users, rows, browser, proc, link, born>>

\* The app exchanges its code at some instance; without an answer it tries again.  The
\* code is deleted before its time is looked at.
ExchangeAuthCode(b, i) ==
    LET s  == browser[b].code
        ok == codes[i][s] # None /\ now <= codes[i][s]
    IN  /\ i \in env.insts
        /\ s # None
        /\ codes' = [codes EXCEPT ![i][s] = None]
        /\ swap' = IF ok THEN [swap EXCEPT ![s].times = @ + 1] ELSE swap
        /\ \/ browser' = [browser EXCEPT ![b].code = None, ![b].token = IF ok THEN s ELSE @]
           \/ browser' = browser
        /\ UNCHANGED <<env, now, states, users, rows, proc, link, born>>

\* Mutant of Cleanup: only the codes.
CleanupCodes(i) ==
    /\ i \in env.insts
    /\ codes' = [codes EXCEPT ![i] =
                   [s \in Sessions |-> IF @[s] # None /\ now > @[s] THEN None ELSE @[s]]]
    /\ UNCHANGED <<env, now, states, users, rows, browser, proc, link, born, swap>>

\* The clean-up cron calls CleanupExpiredOAuthStates and CleanupExpiredAuthCodes on the
\* instance that it reaches, once the expired sessions are gone from the database.  When
\* that fails it clears neither, a step that changes nothing here.
Cleanup(i) ==
    /\ i \in env.insts
    /\ states' = [states EXCEPT ![i] =
                    [st \in States |-> IF @[st] # None /\ now > @[st].expires THEN None ELSE @[st]]]
    /\ codes' = [codes EXCEPT ![i] =
                   [s \in Sessions |-> IF @[s] # None /\ now > @[s] THEN None ELSE @[s]]]
    /\ UNCHANGED <<env, now, users, rows, browser, proc, link, born, swap>>

\* An instance stops and starts again with empty maps; its callbacks are not answered.
Restart(i) ==
    /\ env.crashes /\ i \in env.insts
    /\ states' = [states EXCEPT ![i] = [st \in States |-> None]]
    /\ codes' = [codes EXCEPT ![i] = [s \in Sessions |-> None]]
    /\ proc' = [p \in Procs |-> IF proc[p].inst = i THEN Idle ELSE proc[p]]
    /\ UNCHANGED <<env, now, users, rows, browser, link, born, swap>>

Tick ==
    /\ env.clock /\ now < MaxTime
    /\ now' = now + 1
    /\ UNCHANGED <<env, states, codes, users, rows, browser, proc, link, born, swap>>

CallbackStep(p) ==
    \/ CallbackError(p) \/ Exchange(p) \/ GetUserByGoogleID(p) \/ CreateUser(p)
    \/ DeleteOldSession(p) \/ SetSessionCookie(p) \/ CreateAuthCode(p)
    \/ \E s \in Sessions : CreateSession(p, s)

Next ==
    \/ \E b \in Browsers, i \in Instances, st \in States, mobile \in BOOLEAN : Login(b, i, st, mobile)
    \/ \E st \in States, g \in Accounts : Consent(st, g)
    \/ \E p \in Procs, b \in Browsers, i \in Instances, st \in States : Callback(p, b, i, st)
    \/ \E p \in Procs : CallbackStep(p)
    \/ \E b \in Browsers, i \in Instances : ExchangeAuthCode(b, i)
    \/ \E i \in Instances : Cleanup(i) \/ Restart(i)
    \/ Tick

Spec == Init /\ [][Next]_vars

\* Time passes, and the clean-up cron runs every day on some instance.
FairSpec == Spec /\ WF_vars(Tick) /\ WF_vars(\E i \in Instances : Cleanup(i))

-----------------------------------------------------------------------------
(* Correctness.                                                              *)

\* The session that a browser or an app holds was made by a login of that same browser
\* and is one of the account that signed in at Google, although callbacks of several
\* browsers, tabs and instances overlap.
OwnSession ==
    \A b \in Browsers : \A s \in {browser[b].session, browser[b].token} \ {None} :
      /\ link[born[s].state].browser = b
      /\ users[born[s].user] = link[born[s].state].account

\* The state of a login is accepted once, however often and wherever its callback is
\* sent: at most one callback goes on with it, and it makes at most one session
\* (ValidateAndConsumeOAuthState, over instances and restarts).
StateOnce ==
    /\ \A p, q \in Procs : proc[p].pc # "idle" /\ proc[p].state = proc[q].state => p = q
    /\ \A s \in Sessions : born[s] # None =>
         /\ \A t \in Sessions : born[t] # None /\ born[t].state = born[s].state => t = s
         /\ \A p \in Procs : proc[p].state = born[s].state => proc[p].session = s

\* A code is exchanged at most once, and within its two minutes, however often the app
\* asks and whichever instance it reaches (docs/authentication.md:95).
CodeOnce ==
    [][\A s \in Sessions :
         swap[s] # None /\ swap'[s] # swap[s] => swap[s].times = 0 /\ now <= swap[s].at + CodeTTL]_vars

\* What SignIn sees: of a login who began and who answered it, of a session the account
\* that its user stands for, of a browser and its app the sessions they hold.
LoginView   == [st \in States |-> IF link[st] = None THEN None
                  ELSE [browser |-> link[st].browser, account |-> link[st].account]]
SessionView == [s \in Sessions |-> IF born[s] = None THEN None
                  ELSE [login |-> born[s].state, account |-> users[born[s].user]]]
HoldView    == [b \in Browsers |-> [session |-> browser[b].session, token |-> browser[b].token]]

Promise == INSTANCE SignIn WITH
    Logins <- States, login <- LoginView, made <- SessionView, code <- swap, holds <- HoldView

\* States, cookies, codes and users, kept by several instances that restart and by callbacks
\* that overlap, are together one service: every step is one of SignIn's or changes nothing
\* there (Login, Callback and Token handlers; CodeOnce follows).
ImplementsSignIn == Promise!Spec

\* On SQLite an account has one user, although first logins overlap and a failed lookup
\* is taken for a new account.
OneUser ==
    ~env.datastore => \A u, v \in UserIds : users[u] # None /\ users[u] = users[v] => u = v

\* On a single instance no state and no code stays in memory for good, also of logins
\* that nobody finishes (those that expire before the clock's bound).
Forgotten ==
    LET Single == Cardinality(env.insts) = 1 /\ env.clock
    IN  \A i \in Instances :
          /\ \A st \in States :
               Single /\ states[i][st] # None /\ states[i][st].expires < MaxTime
                 ~> states[i][st] = None
          /\ \A s \in Sessions :
               Single /\ codes[i][s] # None /\ codes[i][s] < MaxTime ~> codes[i][s] = None
=============================================================================
