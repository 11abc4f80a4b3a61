------------------------------ MODULE Accounts ------------------------------
(***************************************************************************)
(* The accounts: the users table, the subscriptions that Stripe keeps, the *)
(* webhooks that carry their changes, and the administration of accounts   *)
(* over HTTP, from the command line (whose tokens are in AdminTokens) and  *)
(* at start-up.                                                            *)
(*                                                                         *)
(* A webhook names a subscription and no state: the handler asks Stripe    *)
(* for the state and then writes the user.  Stripe delivers an event again *)
(* until it is answered with 200.  Two requests share nothing but the      *)
(* tables: SQLite updates columns, Datastore reads an entity and puts all  *)
(* of it back, except for the admin flag, which it sets in a transaction.  *)
(***************************************************************************)
EXTENDS AdminTokens, Sequences, FiniteSets

CONSTANTS
    Users,
    Subs,        \* Stripe subscriptions; bounds those ever created
    Limit,       \* FreeTrialFeedLimit (20)
    Envs         \* the deployments and workloads considered

ASSUME AccountsAssumption ==
    /\ Limit \in Nat \ {0}
    /\ None \notin Users \cup Subs \cup Procs

\* Any number of processes, but at no time infinitely many.
ASSUME ProcsAssumption == IsFiniteSet(Procs)

Status      == {"trial", "active", "past_due", "unpaid", "cancelled"}
StripeState == {"active", "past_due", "unpaid", "canceled", "incomplete"}
Kinds       == {"checkout", "webhook", "fix", "setid", "grant", "admin", "max", "startup"}

\* kinds: what may be asked for; shells: where the command line runs.  initial: INITIAL_ADMIN_EMAILS.  ops: requests and
\* commands, changes: changes at Stripe, faults: failed calls, crashes and lost
\* answers, each a bound on how many there are.
Env == [datastore: BOOLEAN, kinds: SUBSET Kinds, users: SUBSET Users, subs: SUBSET Subs,
        shells: SUBSET Procs, tokens: SUBSET Tokens, initial: Seq(Users),
        ops: Nat, changes: Nat, faults: Nat]

ASSUME EnvsAssumption == Envs \subseteq Env

VARIABLES
    user,     \* users: the row of a user, None before the first login
    stripe,   \* the subscriptions at Stripe
    pending,  \* webhooks of a subscription not yet answered with 200
    job,      \* the requests, commands and start-ups under way, one per process
    audit,    \* audit_logs: the successful grants to a user
    left,     \* what is left of env.ops, env.changes and env.faults
    paid,     \* subscriptions that were active once (history)
    settled   \* users whose status was last written by an undisturbed sync (history)

accountVars == <<user, stripe, pending, job, audit, left, paid, settled>>
vars        == <<env, token, shell, user, stripe, pending, job, audit, left, paid, settled>>

Row  == [status: Status, sub: Subs \cup {None}, admin: BOOLEAN, free: Nat, max: {0, 50, 100}]
Job  == [pc: {"idle", "user", "checkout", "stripe", "write", "put", "log", "ack"},
         kind: Kinds \cup {None}, u: Users \cup {None}, s: Subs \cup {None},
         caller: Users \cup {None}, flag: BOOLEAN, status: Status,
         copy: Row \cup {None}, todo: Seq(Users), alone: BOOLEAN]
Sub  == [owner: Users, state: StripeState]

ASSUME NoneAssumption == None \notin Row \cup Sub

NewRow == [status |-> "trial", sub |-> None, admin |-> FALSE, free |-> 0, max |-> 100]
Idle   == [pc |-> "idle", kind |-> None, u |-> None, s |-> None, caller |-> None, flag |-> FALSE,
           status |-> "trial", copy |-> None, todo |-> <<>>, alone |-> FALSE]

\* What a job holds from which step on.
LocalsOK(q) ==
    /\ q.pc # "idle" => q.kind \in Kinds
    /\ q.pc = "user" => q.kind # "webhook"
    /\ q.pc = "stripe" => q.kind \in {"webhook", "fix"}
    /\ q.pc \in {"write", "put"} => q.kind # "checkout"
    /\ q.pc \in {"user", "checkout", "write", "put", "log"} => q.u \in Users
    /\ q.pc \in {"stripe", "ack"} => q.s \in Subs
    /\ q.pc # "idle" /\ q.kind \in {"webhook", "setid"} => q.s \in Subs
    /\ q.pc \in {"write", "put"} /\ q.kind = "fix" => q.s \in Subs
    /\ q.pc = "put" => q.copy \in Row

TypeOK ==
    /\ env \in Envs
    /\ TokenTypeOK
    /\ user \in [Users -> Row \cup {None}]
    /\ stripe \in [Subs -> Sub \cup {None}]
    /\ pending \in [Subs -> Nat]
    /\ job \in [Procs -> Job] /\ (\A r \in Procs : LocalsOK(job[r]))
    /\ audit \in [Users -> Nat]
    /\ left \in [ops: Nat, changes: Nat, faults: Nat]
    /\ paid \subseteq Subs
    /\ settled \subseteq Users

Init ==
    /\ env \in Envs
    /\ TokenInit
    /\ user = [u \in Users |-> None]
    /\ stripe = [s \in Subs |-> None]
    /\ pending = [s \in Subs |-> 0]
    /\ job = [r \in Procs |-> Idle]
    /\ audit = [u \in Users |-> 0]
    /\ left = [ops |-> env.ops, changes |-> env.changes, faults |-> env.faults]
    /\ paid = {}
    /\ settled = {}

Known(u)    == user[u] # None
Admins      == {u \in Users : Known(u) /\ user[u].admin}
Use(what)   == left[what] > 0 /\ left' = [left EXCEPT ![what] = @ - 1]
Set(r, q)   == job' = [job EXCEPT ![r] = q]
Ready(r)    == job[r].pc = "idle"
Syncs(q)    == q.kind \in {"webhook", "fix"}
Backlog(s)  == pending' = [pending EXCEPT ![s] = @ + 1]

-----------------------------------------------------------------------------
(* Sign-up, and what happens at Stripe.                                      *)

\* CreateUser, at the first login.
CreateUser(u) ==
    /\ ~Known(u) /\ u \in env.users
    /\ user' = [user EXCEPT ![u] = NewRow]
    /\ UNCHANGED <<env, tokenVars, stripe, pending, job, audit, left, paid, settled>>

\* The customer pays at the checkout page: the new subscription carries the user_id
\* that CreateCheckoutSession put into its metadata.
Pay(r, s, st) ==
    /\ job[r].pc = "checkout"
    /\ stripe[s] = None /\ s \in env.subs
    /\ st \in {"active", "incomplete"}
    /\ stripe' = [stripe EXCEPT ![s] = [owner |-> job[r].u, state |-> st]]
    /\ paid' = IF st = "active" THEN paid \cup {s} ELSE paid
    /\ Backlog(s)
    /\ Set(r, Idle)
    /\ UNCHANGED <<env, tokenVars, user, audit, left, settled>>

\* The customer leaves the checkout page, or it expires.
Leave(r) ==
    /\ job[r].pc = "checkout"
    /\ Set(r, Idle)
    /\ UNCHANGED <<env, tokenVars, user, stripe, pending, audit, left, paid, settled>>

\* A renewal, a failed payment, a cancellation (which is final).
StripeChange(s, st) ==
    /\ stripe[s] # None
    /\ stripe[s].state \notin {"canceled", st}
    /\ Use("changes")
    /\ stripe' = [stripe EXCEPT ![s].state = st]
    /\ paid' = IF st = "active" THEN paid \cup {s} ELSE paid
    /\ Backlog(s)
    /\ UNCHANGED <<env, tokenVars, user, job, audit, settled>>

-----------------------------------------------------------------------------
(* What starts a job.                                                        *)

Begin(r, q) ==
    /\ Ready(r)
    /\ q.kind \in env.kinds
    /\ Use("ops")
    /\ Set(r, q)
    /\ UNCHANGED <<env, tokenVars, user, stripe, pending, audit, paid, settled>>

CreateCheckoutSession(r, u) ==
    Known(u) /\ Begin(r, [Idle EXCEPT !.pc = "user", !.kind = "checkout", !.u = u])

\* flag: the new value is 50 or 0, which Datastore refuses.
UpdateMaxArticles(r, u, flag) ==
    Known(u) /\ Begin(r, [Idle EXCEPT !.pc = "write", !.kind = "max", !.u = u, !.flag = flag])

\* RequireAdmin lets the caller in; by the time the request goes on he may be
\* demoted.
SetAdminStatus(r, caller, u, flag) ==
    /\ caller \in Admins
    /\ Begin(r, [Idle EXCEPT !.pc = "user", !.kind = "admin", !.u = u, !.caller = caller,
                             !.flag = flag])

GrantMonths(r, caller, u) ==
    /\ caller \in Admins
    /\ Begin(r, [Idle EXCEPT !.pc = "user", !.kind = "grant", !.u = u, !.caller = caller])

\* The command line, once its token was accepted.
Command(r, q) ==
    /\ Ready(r) /\ shell[r].pc = "valid"
    /\ q.kind \in env.kinds
    /\ Use("ops")
    /\ Set(r, q)
    /\ Exit(r)
    /\ UNCHANGED <<env, token, user, stripe, pending, audit, paid, settled>>

SetAdmin(r, u, flag) ==
    Command(r, [Idle EXCEPT !.pc = "user", !.kind = "admin", !.u = u, !.flag = flag])
GrantFree(r, u)          == Command(r, [Idle EXCEPT !.pc = "user", !.kind = "grant", !.u = u])
FixSubscription(r, u)    == Command(r, [Idle EXCEPT !.pc = "user", !.kind = "fix", !.u = u])
SetSubscriptionID(r, u, s) ==
    Command(r, [Idle EXCEPT !.pc = "user", !.kind = "setid", !.u = u, !.s = s])

\* Stripe delivers an event; the handler keeps the subscription's id.
Deliver(r, s) ==
    /\ Ready(r)
    /\ pending[s] > 0
    /\ pending' = [pending EXCEPT ![s] = @ - 1]
    /\ Set(r, [Idle EXCEPT !.pc = "stripe", !.kind = "webhook", !.s = s])
    /\ UNCHANGED <<env, tokenVars, user, stripe, audit, left, paid, settled>>

\* The next of INITIAL_ADMIN_EMAILS; the loop is over when none is left.
NextEmail(todo) ==
    IF todo = <<>> THEN Idle
      ELSE [Idle EXCEPT !.pc = "user", !.kind = "startup", !.u = Head(todo), !.flag = TRUE,
                        !.todo = Tail(todo)]

\* An instance starts: InitializeAdminUsers.
Startup(r) ==
    /\ Ready(r)
    /\ "startup" \in env.kinds
    /\ env.initial # <<>>
    /\ Set(r, NextEmail(env.initial))
    /\ UNCHANGED <<env, tokenVars, user, stripe, pending, audit, left, paid, settled>>

-----------------------------------------------------------------------------
(* The steps of a job.                                                       *)

\* Mutant of AfterEmail: the loop ends at an email that nobody has yet.
StopAtUnknown(q) ==
    IF Known(q.u) /\ ~user[q.u].admin THEN [q EXCEPT !.pc = "write"] ELSE Idle

\* InitializeAdminUsers passes over emails it does not find and over admins.
AfterEmail(q) ==
    IF Known(q.u) /\ ~user[q.u].admin THEN [q EXCEPT !.pc = "write"] ELSE NextEmail(q.todo)

\* What a job does with the user GetUserByEmail or GetUserByID returned.
AfterLookup(q) ==
    IF q.kind = "startup" THEN AfterEmail(q)
    ELSE IF ~Known(q.u) THEN Idle
    ELSE CASE q.kind = "checkout" -> IF user[q.u].status = "active"
                                       THEN Idle ELSE [q EXCEPT !.pc = "checkout"]
           [] q.kind = "fix" -> IF user[q.u].sub = None
                                  THEN Idle ELSE [q EXCEPT !.pc = "stripe", !.s = user[q.u].sub]
           [] q.kind = "setid" -> [q EXCEPT !.pc = "write", !.status = user[q.u].status]
           [] q.kind = "admin" /\ q.caller = q.u /\ ~q.flag -> Idle   \* ErrSelfDemotion
           [] OTHER -> [q EXCEPT !.pc = "write"]

Lookup(r) ==
    /\ job[r].pc = "user"
    /\ Set(r, AfterLookup(job[r]))
    /\ UNCHANGED <<env, tokenVars, user, stripe, pending, audit, left, paid, settled>>

\* Mutant of Convert: the status is stored as Stripe spells it.
ConvertNot(st) == st

\* Mutant of Convert: only a cancellation cancels.
ConvertLoose(st) == IF st = "canceled" THEN "cancelled" ELSE IF st = "incomplete" THEN "active" ELSE st

Convert(st) == IF st \in {"canceled", "incomplete"} THEN "cancelled" ELSE st

\* HandleSubscriptionUpdate asks Stripe.  The user is the one of the metadata, also
\* when the command line named another one.  alone: no other sync of this user is
\* between its question and its answer's being written.
ReadStripe(r) ==
    LET q      == job[r]
        owner  == stripe[q.s].owner
        rivals == {p \in Procs \ {r} : /\ Syncs(job[p]) /\ job[p].u = owner
                                       /\ job[p].pc \in {"write", "put"}}
    IN  /\ q.pc = "stripe"
        /\ stripe[q.s] # None
        /\ job' = [p \in Procs |->
                     CASE p = r -> [q EXCEPT !.pc = "write", !.u = owner,
                                             !.status = Convert(stripe[q.s].state),
                                             !.alone = (rivals = {})]
                       [] p \in rivals -> [job[p] EXCEPT !.alone = FALSE]
                       [] OTHER -> job[p]]
        /\ UNCHANGED <<env, tokenVars, user, stripe, pending, audit, left, paid, settled>>

UpdateUserSubscription(row, status, sub) == [row EXCEPT !.status = status, !.sub = sub]
SetUserAdmin(row, flag)                  == [row EXCEPT !.admin = flag]
GrantFreeMonths(row)                     == [row EXCEPT !.free = @ + 1]
UpdateUserMaxArticlesOnFeedAdd(row, n)   == [row EXCEPT !.max = n]

\* The row a job writes, from the row it has.
Change(q, row) ==
    CASE q.kind \in {"webhook", "fix", "setid"} -> UpdateUserSubscription(row, q.status, q.s)
      [] q.kind \in {"admin", "startup"} -> SetUserAdmin(row, q.flag)
      [] q.kind = "grant" -> GrantFreeMonths(row)
      [] q.kind = "max" -> UpdateUserMaxArticlesOnFeedAdd(row, IF q.flag THEN 50 ELSE 0)

\* set-subscription-id goes on as fix-subscription does, with the id it was given.
AfterWrite(q) ==
    CASE q.kind = "webhook" -> [q EXCEPT !.pc = "ack"]
      [] q.kind = "setid" -> [q EXCEPT !.kind = "fix", !.pc = "stripe"]
      [] q.kind \in {"admin", "grant"} -> [q EXCEPT !.pc = "log"]
      [] q.kind = "startup" -> NextEmail(q.todo)
      [] OTHER -> Idle

\* User u's row becomes row, and the job goes on.
Save(r, row) ==
    LET q    == job[r]
        same == user[q.u].status = row.status /\ user[q.u].sub = row.sub
    IN  /\ user' = [user EXCEPT ![q.u] = row]
        /\ settled' = IF Syncs(q) /\ q.alone THEN settled \cup {q.u}
                      ELSE IF same /\ ~Syncs(q) /\ q.kind # "setid" THEN settled
                      ELSE settled \ {q.u}
        /\ Set(r, AfterWrite(q))
        /\ UNCHANGED <<env, tokenVars, stripe, pending, audit, left, paid>>

\* Mutant of Exec: GrantFreeMonths adds to the months that GetUserByEmail read.
ExecStale(r) ==
    LET q == job[r]
    IN  /\ q.pc = "write" /\ ~env.datastore
        /\ IF q.kind = "grant" /\ q.copy = None
             THEN /\ Set(r, [q EXCEPT !.copy = user[q.u]])
                  /\ UNCHANGED <<env, tokenVars, user, stripe, pending, audit, left, paid, settled>>
             ELSE Save(r, Change(q, IF q.kind = "grant" THEN [user[q.u] EXCEPT !.free = q.copy.free]
                                                        ELSE user[q.u]))

\* SQLite: one UPDATE of the columns the job sets.
Exec(r) ==
    /\ job[r].pc = "write" /\ ~env.datastore
    /\ Save(r, Change(job[r], user[job[r].u]))

\* Datastore: the entity is read; 0 as number of articles is refused before that.
Get(r) ==
    LET q == job[r]
    IN  /\ q.pc = "write" /\ env.datastore
        /\ Set(r, IF q.kind = "max" /\ ~q.flag THEN Idle
                    ELSE [q EXCEPT !.pc = "put", !.copy = user[q.u]])
        /\ UNCHANGED <<env, tokenVars, user, stripe, pending, audit, left, paid, settled>>

Put(r) ==
    /\ job[r].pc = "put" /\ job[r].kind # "admin"
    /\ Save(r, Change(job[r], job[r].copy))

\* The transaction of SetUserAdminAtomic: it starts again when the entity changed.
Commit(r) ==
    /\ job[r].pc = "put" /\ job[r].kind = "admin"
    /\ IF user[job[r].u] = job[r].copy
         THEN Save(r, Change(job[r], job[r].copy))
         ELSE /\ Set(r, [job[r] EXCEPT !.pc = "write", !.copy = None])
              /\ UNCHANGED <<env, tokenVars, user, stripe, pending, audit, left, paid, settled>>

CreateAuditLog(u) == audit' = [audit EXCEPT ![u] = @ + 1]

\* LogSuccess, whose error nobody looks at (Fail).
LogSuccess(r) ==
    /\ job[r].pc = "log"
    /\ IF job[r].kind = "grant" THEN CreateAuditLog(job[r].u) ELSE UNCHANGED audit
    /\ Set(r, Idle)
    /\ UNCHANGED <<env, tokenVars, user, stripe, pending, left, paid, settled>>

\* Stripe receives the 200.
Acknowledge(r) ==
    /\ job[r].pc = "ack"
    /\ Set(r, Idle)
    /\ UNCHANGED <<env, tokenVars, user, stripe, pending, audit, left, paid, settled>>

\* Mutant of Fail: the webhook is answered with 200 whatever happened.
FailQuietly(r) ==
    /\ job[r].pc \notin {"idle", "checkout"}
    /\ Use("faults")
    /\ Set(r, IF job[r].kind = "startup" THEN NextEmail(job[r].todo) ELSE Idle)
    /\ UNCHANGED <<env, tokenVars, user, stripe, pending, audit, paid, settled>>

\* A call fails, an answer is lost or the process ends: Stripe delivers the event
\* again, a start-up that lives goes on with the next email, any other job ends.
Fail(r) ==
    LET q == job[r]
    IN  /\ q.pc \notin {"idle", "checkout"}
        /\ Use("faults")
        /\ IF q.kind = "webhook" THEN Backlog(q.s) ELSE UNCHANGED pending
        /\ \/ Set(r, Idle)
           \/ q.kind = "startup" /\ Set(r, NextEmail(q.todo))
        /\ UNCHANGED <<env, tokenVars, user, stripe, audit, paid, settled>>

\* set-subscription-id was given an id that Stripe does not have.
NoSuchSubscription(r) ==
    /\ job[r].pc = "stripe" /\ stripe[job[r].s] = None
    /\ Set(r, Idle)
    /\ UNCHANGED <<env, tokenVars, user, stripe, pending, audit, left, paid, settled>>

-----------------------------------------------------------------------------

Ask(r) ==
    \E u \in env.users :
       \/ CreateCheckoutSession(r, u)
       \/ \E flag \in BOOLEAN : UpdateMaxArticles(r, u, flag) \/ SetAdmin(r, u, flag)
       \/ \E caller \in Users, flag \in BOOLEAN : SetAdminStatus(r, caller, u, flag)
       \/ \E caller \in Users : GrantMonths(r, caller, u)
       \/ GrantFree(r, u) \/ FixSubscription(r, u)
       \/ \E s \in Subs : SetSubscriptionID(r, u, s)

Step(r) ==
    \/ Lookup(r) \/ ReadStripe(r) \/ NoSuchSubscription(r) \/ Exec(r) \/ Get(r) \/ Put(r)
    \/ Commit(r) \/ LogSuccess(r) \/ Acknowledge(r) \/ Leave(r)

Next ==
    \/ \E u \in Users : CreateUser(u)
    \/ \E s \in Subs, st \in StripeState : StripeChange(s, st)
    \/ \E r \in Procs :
          \/ Ask(r) \/ Startup(r) \/ Step(r) \/ Fail(r)
          \/ \E s \in Subs : Deliver(r, s) \/ (\E st \in StripeState : Pay(r, s, st))
          \/ /\ r \in env.shells
             /\ TokenStep(r, Admins # {}) /\ UNCHANGED accountVars
             /\ \A t \in Tokens \ env.tokens : token'[t] = "none"

Spec == Init /\ [][Next]_vars

\* A process goes on until its job ends; Stripe delivers an event until it is
\* answered; instances are started again and again.
FairSpec ==
    /\ Spec
    /\ \A r \in Procs : WF_vars(Step(r))
    /\ \A s \in Subs : SF_vars(\E r \in Procs : Deliver(r, s))
    /\ SF_vars(\E r \in Procs : Startup(r))

-----------------------------------------------------------------------------
(* Access that a row gives.                                                  *)

\* now: the time, before, at or after the end of the trial.
CanUserAddFeed(row, feeds, now) ==
    \/ row.admin \/ row.status = "active" \/ row.free > 0
    \/ row.status # "trial"
    \/ now # "after" /\ feeds < Limit

IsUserSubscriptionActive(row, now) ==
    row.admin \/ row.status = "active" \/ (row.status = "trial" /\ now = "before") \/ row.free > 0

\* Mutant of CanAddFeeds: the limit itself still counts as room.
CanAddOneMore(row, feeds, now) ==
    \/ row.admin \/ row.status = "active" \/ row.free > 0
    \/ feeds <= Limit /\ IsUserSubscriptionActive(row, now)

\* can_add_feeds of GetUserSubscriptionInfo.
CanAddFeeds(row, feeds, now) ==
    \/ row.admin \/ row.status = "active" \/ row.free > 0
    \/ feeds < Limit /\ IsUserSubscriptionActive(row, now)

-----------------------------------------------------------------------------
(* Correctness.                                                              *)

Mirrors(u) == user[u].sub # None => /\ stripe[user[u].sub] # None
                                    /\ user[u].status = Convert(stripe[user[u].sub].state)
Quiet      == /\ \A s \in Subs : pending[s] = 0
              /\ \A r \in Procs : ~Syncs(job[r])

\* When no event is undelivered and no sync is under way, a user whose status was last
\* written by a sync that no other one overlapped has the status that Stripe gives the
\* subscription in his row, whatever failed, crashed or was delivered twice before
\* (WebhookHandler answers 200 only after HandleSubscriptionUpdate succeeded).
SettledMirrors == Quiet => \A u \in settled : Mirrors(u)

\* Nobody is "active" without a subscription of his own that was active at Stripe at
\* some time (HandleSubscriptionUpdate converts, and reads the owner from the metadata),
\* whatever ids an operator sets and whichever whole entity a late Put brings back.
ActiveWasPaid ==
    \A u \in Users : Known(u) /\ user[u].status = "active"
        => \E s \in paid : stripe[s].owner = u

\* SQLite: every grant that the audit log calls a success is in the user's row, also
\* when two admins grant at the same time (GrantFreeMonths adds in the UPDATE).
GrantsKept ==
    ~env.datastore => \A u \in Users : audit[u] > 0 => Known(u) /\ user[u].free >= audit[u]

\* The subscription page never offers what AddFeed then refuses, and for trial and
\* paying users it offers all that AddFeed allows: GetUserSubscriptionInfo and
\* CanUserAddFeed decide the same from the same row, for any number of feeds.
InfoAgrees ==
    \A u \in Users, feeds \in 0..(Limit + 1), now \in {"before", "at", "after"} :
        Known(u) =>
            /\ CanAddFeeds(user[u], feeds, now) => CanUserAddFeed(user[u], feeds, now)
            /\ user[u].status \in {"trial", "active"} /\ now # "at"
                 => (CanUserAddFeed(user[u], feeds, now) => CanAddFeeds(user[u], feeds, now))

\* SQLite: a revoked token never works again, also when it is being used while it is
\* revoked (ValidateAdminToken updates last_used_at only).
RevokedStays ==
    [][~env.datastore => \A t \in Tokens : token[t] = "revoked" => token'[t] = "revoked"]_vars

\* The events of Stripe reach the rows: failed, crashed or repeated deliveries end in
\* rows that mirror Stripe, unless syncs of one user overlapped.
StatusCatchesUp == <>[](\A u \in settled : Mirrors(u))

\* As soon as one of INITIAL_ADMIN_EMAILS has signed in there is an admin again and
\* again, although admins may demote each other until none is left
\* (InitializeAdminUsers goes on after an email it does not find).
AdminsRestored ==
    \A u \in Users : Known(u) /\ (\E i \in DOMAIN env.initial : env.initial[i] = u)
                       ~> Admins # {}
=============================================================================
