--------------------------- MODULE AccountsProofs ---------------------------
(***************************************************************************)
(* Proofs about Accounts (and AdminTokens) for any number of users,        *)
(* subscriptions, tokens and processes, on both backends.                  *)
(***************************************************************************)
EXTENDS Accounts, FiniteSetTheorems, TLAPS

USE TokensAssumption, AccountsAssumption, ProcsAssumption, NoneAssumption, EnvsAssumption

-----------------------------------------------------------------------------
(* The inductive invariant.                                                  *)

Writing(q) == q.pc \in {"write", "put"}
Syncing(q) == Syncs(q) /\ Writing(q)
Paid(u)    == \E s \in paid : stripe[s] # None /\ stripe[s].owner = u

\* Event of s: not delivered, or delivered and not yet answered by Stripe's state.
Asks(q, s) == q.pc = "stripe" /\ q.kind = "webhook" /\ q.s = s
Coming(s)  == pending[s] > 0 \/ \E p \in Procs : Asks(job[p], s)

\* Event of s: not delivered, or delivered and not yet written.
Brings(q, s) == q.pc \in {"stripe", "write", "put"} /\ q.kind = "webhook" /\ q.s = s
OnItsWay(s)  == pending[s] > 0 \/ \E p \in Procs : Brings(job[p], s)

\* What a job may rely on: the row it is about to change is there, an "active" that it
\* writes or puts back was paid for, only Datastore puts rows back, and a sync writes the
\* owner's row.
Good(q) ==
    /\ q.pc \in {"checkout", "write", "put", "log"} => Known(q.u)
    /\ Writing(q) /\ q.kind \in {"webhook", "fix", "setid"} /\ q.status = "active" => Paid(q.u)
    /\ q.pc = "put" => env.datastore /\ (q.copy.status = "active" => Paid(q.u))
    /\ Syncing(q) => stripe[q.s] # None /\ stripe[q.s].owner = q.u

\* What a sync that nobody overlaps is about to write is what Stripe says, or another
\* event will ask again.
Fresh(q) == Syncing(q) /\ q.alone => q.status = Convert(stripe[q.s].state) \/ Coming(q.s)

Jobs == \A r \in Procs : Good(job[r]) /\ Fresh(job[r])

\* Subscriptions belong to users that signed up, and what is active was.
Bills ==
    /\ \A s \in Subs : stripe[s] # None => /\ Known(stripe[s].owner)
                                           /\ stripe[s].state = "active" => s \in paid
    /\ \A s \in paid : stripe[s] # None

\* The row of u is about a subscription of u, and mirrors it or an event is on its way.
Follows(u) ==
    /\ Known(u) /\ user[u].sub # None
    /\ stripe[user[u].sub] # None /\ stripe[user[u].sub].owner = u
    /\ user[u].status = Convert(stripe[user[u].sub].state) \/ OnItsWay(user[u].sub)

Settled == \A u \in settled : Follows(u)

\* Grants to u that are in the row and not yet in the audit log.
ToLog(u) == {r \in Procs : job[r].pc = "log" /\ job[r].kind = "grant" /\ job[r].u = u}

Granted ==
    ~env.datastore => \A u \in Users :
        audit[u] + Cardinality(ToLog(u)) <= IF Known(u) THEN user[u].free ELSE 0

Inv == TypeOK /\ Jobs /\ Bills /\ ActiveWasPaid /\ Settled /\ Granted

-----------------------------------------------------------------------------
(* Types.                                                                    *)

\* What the fields of a job may hold.
LEMMA JobFields ==
  ASSUME NEW q \in Job
  PROVE  /\ q.pc \in {"idle", "user", "checkout", "stripe", "write", "put", "log", "ack"}
         /\ q.kind \in Kinds \cup {None} /\ q.u \in Users \cup {None} /\ q.s \in Subs \cup {None}
         /\ q.caller \in Users \cup {None} /\ q.flag \in BOOLEAN /\ q.status \in Status
         /\ q.copy \in Row \cup {None} /\ q.todo \in Seq(Users) /\ q.alone \in BOOLEAN
  BY DEF Job

\* What the columns of a row may hold.
LEMMA RowFields ==
  ASSUME NEW w \in Row
  PROVE  /\ w.status \in Status /\ w.sub \in Subs \cup {None} /\ w.admin \in BOOLEAN
         /\ w.free \in Nat /\ w.max \in {0, 50, 100}
  BY DEF Row

\* A process without a job satisfies everything said of jobs.
LEMMA IdleOK ==
  /\ Idle \in Job /\ LocalsOK(Idle) /\ Good(Idle) /\ Fresh(Idle)
  /\ Idle.pc = "idle"
PROOF
  <1>1. <<>> \in Seq(Users)
    OBVIOUS
  <1>2. /\ Idle \in Job /\ Idle.pc = "idle"
    BY <1>1 DEF Idle, Job, Status
  <1> QED
    BY <1>2 DEF LocalsOK, Good, Fresh, Syncing, Writing

\* A user who signed up has a row.
LEMMA UserType ==
  ASSUME TypeOK, NEW u \in Users, Known(u)
  PROVE  user[u] \in Row
  BY DEF TypeOK, Known

\* A subscription that exists has an owner and a state of Stripe.
LEMMA StripeType ==
  ASSUME TypeOK, NEW s \in Subs, stripe[s] # None
  PROVE  stripe[s] \in Sub /\ stripe[s].owner \in Users /\ stripe[s].state \in StripeState
  BY DEF TypeOK, Sub

\* The budgets of requests, changes and faults stay natural numbers.
LEMMA UseType ==
  ASSUME TypeOK, NEW what \in {"ops", "changes", "faults"}, Use(what)
  PROVE  left' \in [ops: Nat, changes: Nat, faults: Nat]
  BY DEF TypeOK, Use

\* A status of Stripe becomes one of the program, and only "active" becomes "active".
LEMMA ConvertType ==
  ASSUME NEW st \in StripeState
  PROVE  Convert(st) \in Status /\ (Convert(st) = "active" => st = "active")
  BY DEF Convert, StripeState, Status

\* The configured emails and the users of a workload are users.
LEMMA EnvFields ==
  ASSUME TypeOK
  PROVE  env \in Env /\ env.initial \in Seq(Users) /\ env.users \subseteq Users
  BY DEF TypeOK, Env

\* The commands about tokens.
LEMMA TokenType ==
  ASSUME TokenTypeOK, NEW c \in Procs, NEW b \in BOOLEAN, TokenStep(c, b)
  PROVE  TokenTypeOK' /\ UNCHANGED env
PROOF
  <1> USE DEF TokenTypeOK
  <1>0. Closed \in Shell
    BY DEF Closed, Shell
  <1>1. Exit(c) => shell' \in [Procs -> Shell]
    BY <1>0 DEF Exit
  <1>2. ASSUME NEW pc \in {"touch", "valid", "store"}, Go(c, pc)
        PROVE  shell' \in [Procs -> Shell]
    <2>1. [shell[c] EXCEPT !.pc = pc] \in Shell
      BY DEF Shell
    <2> QED
      BY <1>2, <2>1 DEF Go
  <1>3. ASSUME NEW pc \in {"validate", "check", "put"}, NEW t \in Tokens \cup {None},
               shell' = [shell EXCEPT ![c] = [pc |-> pc, tok |-> t]]
        PROVE  shell' \in [Procs -> Shell]
    <2>1. [pc |-> pc, tok |-> t] \in Shell
      BY DEF Shell
    <2> QED
      BY <1>3, <2>1
  <1>4. ASSUME NEW t \in Tokens, Launch(c, t)
        PROVE  TokenTypeOK' /\ UNCHANGED env
    BY <1>3, <1>4 DEF Launch
  <1>5. ASSUME NEW t \in Tokens, GenerateAdminToken(c, t)
        PROVE  TokenTypeOK' /\ UNCHANGED env
    BY <1>1, <1>5 DEF GenerateAdminToken
  <1>6. ASSUME NEW t \in Tokens, RevokeAdminToken(c, t)
        PROVE  TokenTypeOK' /\ UNCHANGED env
    BY <1>1, <1>3, <1>6 DEF RevokeAdminToken
  <1>7. CreateAdminToken(c) => TokenTypeOK' /\ UNCHANGED env
    BY <1>3 DEF CreateAdminToken
  <1>8. CheckBootstrap(c, b) => TokenTypeOK' /\ UNCHANGED env
    BY <1>1, <1>2 DEF CheckBootstrap
  <1>9. ValidateAdminToken(c) => TokenTypeOK' /\ UNCHANGED env
    BY <1>1, <1>2 DEF ValidateAdminToken
  <1>10. Touch(c) => TokenTypeOK' /\ UNCHANGED env
    BY <1>2 DEF Touch
  <1>11. PutRevoked(c) => TokenTypeOK' /\ UNCHANGED env
    BY <1>1 DEF PutRevoked
  <1>12. Quit(c) => TokenTypeOK' /\ UNCHANGED env
    BY <1>1 DEF Quit
  <1> QED
    BY <1>4, <1>5, <1>6, <1>7, <1>8, <1>9, <1>10, <1>11, <1>12 DEF TokenStep

-----------------------------------------------------------------------------
(* Steps that change no table.                                               *)

\* An event that is to change a row is not lost on the way.
EventsKept == \A s \in Subs : stripe[s] # None => /\ Coming(s) => Coming(s)'
                                                  /\ OnItsWay(s) => OnItsWay(s)'

\* The job of r becomes q, the rows, Stripe and the histories stay as they are, and no
\* event is lost.
LEMMA MoveInv ==
  ASSUME Inv, NEW r \in Procs, NEW q \in Job, LocalsOK(q), Good(q), Fresh(q), q.pc # "log",
         job' = [job EXCEPT ![r] = q], UNCHANGED <<env, user, stripe, audit, paid, settled>>,
         TokenTypeOK', pending' \in [Subs -> Nat],
         left' \in [ops: Nat, changes: Nat, faults: Nat],
         EventsKept
  PROVE  Inv'
PROOF
  <1>1. job \in [Procs -> Job] /\ (\A p \in Procs : LocalsOK(job[p]))
    BY DEF Inv, TypeOK
  <1>2. job' \in [Procs -> Job] /\ job'[r] = q /\ \A p \in Procs : p # r => job'[p] = job[p]
    BY <1>1
  <1>3. TypeOK'
    <2>1. \A p \in Procs : LocalsOK(job'[p])
      BY <1>1, <1>2
    <2> QED
      BY <1>2, <2>1 DEF Inv, TypeOK
  <1>4. \A x \in Job : Good(x) => Good(x)'
    BY DEF Good, Known, Paid, Syncing, Writing, Syncs
  <1>5. \A x \in Job : LocalsOK(x) /\ Good(x) /\ Fresh(x) => Fresh(x)'
    <2> SUFFICES ASSUME NEW x \in Job, LocalsOK(x), Good(x), Fresh(x), Syncing(x), x.alone,
                        x.status # Convert(stripe[x.s].state)
                 PROVE  Coming(x.s)'
      BY DEF Fresh, Syncing, Writing, Syncs, Convert
    <2>1. x.s \in Subs /\ stripe[x.s] # None /\ Coming(x.s)
      BY DEF LocalsOK, Good, Fresh, Syncing, Writing, Syncs
    <2> QED
      BY <2>1 DEF EventsKept
  <1>6. Jobs'
    <2> SUFFICES ASSUME NEW p \in Procs
                 PROVE  (Good(job[p]) /\ Fresh(job[p]))'
      BY DEF Jobs
    <2>1. CASE p = r
      <3>1. Good(q)' /\ Fresh(q)'
        BY <1>4, <1>5
      <3> QED
        BY <2>1, <1>2, <3>1 DEF Good, Fresh, Known, Syncing, Writing, Syncs
    <2>2. CASE p # r
      <3>1. job[p] \in Job /\ LocalsOK(job[p]) /\ Good(job[p]) /\ Fresh(job[p])
        BY <1>1 DEF Inv, Jobs
      <3> DEFINE x == job[p]
      <3>2. x \in Job /\ LocalsOK(x) /\ Good(x) /\ Fresh(x) /\ job'[p] = x
        BY <3>1, <1>2, <2>2
      <3> HIDE DEF x
      <3>3. (Good(x) /\ Fresh(x)) /\ (\A y \in Job : Good(y) => Good(y)')
        BY <3>2, <1>4
      <3> QED
        BY <3>2, <1>4, <1>5 DEF Good, Fresh, Known, Syncing, Writing, Syncs
    <2> QED
      BY <2>1, <2>2
  <1>7. Bills'
    BY DEF Inv, Bills, Known
  <1>8. ActiveWasPaid'
    BY DEF Inv, ActiveWasPaid, Known
  <1>9. Settled'
    <2> SUFFICES ASSUME NEW u \in settled
                 PROVE  Follows(u)'
      BY DEF Settled
    <2>1. Follows(u) /\ u \in Users
      BY DEF Inv, Settled, TypeOK
    <2>2. user[u].sub \in Subs
      BY <2>1, UserType, RowFields DEF Inv, Follows
    <2> QED
      BY <2>1, <2>2 DEF EventsKept, Follows, Known, Convert
  <1>10. Granted'
    <2> SUFFICES ASSUME ~env.datastore, NEW u \in Users
                 PROVE  audit[u] + Cardinality(ToLog(u)') <= IF Known(u) THEN user[u].free ELSE 0
      BY DEF Granted, Known
    <2>1. ToLog(u)' \subseteq ToLog(u) /\ ToLog(u) \subseteq Procs
      BY <1>2 DEF ToLog
    <2>2. IsFiniteSet(ToLog(u)) /\ IsFiniteSet(ToLog(u)')
      BY <2>1, FS_Subset
    <2>3. /\ Cardinality(ToLog(u)') <= Cardinality(ToLog(u))
          /\ Cardinality(ToLog(u)') \in Nat /\ Cardinality(ToLog(u)) \in Nat
      BY <2>1, <2>2, FS_Subset, FS_CardinalityType
    <2>4. audit[u] + Cardinality(ToLog(u)) <= IF Known(u) THEN user[u].free ELSE 0
      BY DEF Inv, Granted
    <2>5. audit[u] \in Nat /\ (Known(u) => user[u].free \in Nat)
      BY UserType, RowFields DEF Inv, TypeOK
    <2> QED
      BY <2>3, <2>4, <2>5
  <1> QED
    BY <1>3, <1>6, <1>7, <1>8, <1>9, <1>10 DEF Inv

\* No event is lost when a job that carries none goes on, or one starts.
LEMMA NoEvent ==
  ASSUME TypeOK, NEW r \in Procs, NEW q \in Job, job' = [job EXCEPT ![r] = q],
         \A s \in Subs : pending'[s] >= pending[s], pending' \in [Subs -> Nat],
         job[r].kind = "webhook" => job[r].pc \notin {"stripe", "write", "put"}
  PROVE  EventsKept
PROOF
  <1>1. job'[r] = q /\ \A p \in Procs : p # r => job'[p] = job[p]
    BY DEF TypeOK
  <1>2. \A s \in Subs : pending[s] > 0 => pending'[s] > 0
    BY DEF TypeOK
  <1>3. ASSUME NEW s \in Subs
        PROVE  /\ Coming(s) => Coming(s)'
               /\ OnItsWay(s) => OnItsWay(s)'
    <2>1. \A p \in Procs : Brings(job[p], s) \/ Asks(job[p], s) => p # r
      BY DEF Brings, Asks
    <2> QED
      BY <1>1, <1>2, <2>1 DEF Coming, OnItsWay, Brings, Asks
  <1> QED
    BY <1>3 DEF EventsKept

\* A job starts with q in a process that had none, or another one goes on; q is not a
\* sync that is about to write.
LEMMA StartInv ==
  ASSUME Inv, NEW r \in Procs, NEW q \in Job, LocalsOK(q), q.pc \in {"idle", "user", "stripe", "ack"},
         job[r].kind = "webhook" => job[r].pc \notin {"stripe", "write", "put"},
         job' = [job EXCEPT ![r] = q], UNCHANGED <<env, user, stripe, audit, paid, settled, pending>>,
         TokenTypeOK', left' \in [ops: Nat, changes: Nat, faults: Nat]
  PROVE  Inv'
PROOF
  <1>1. Good(q) /\ Fresh(q)
    BY DEF Good, Fresh, Syncing, Writing
  <1>2. pending' \in [Subs -> Nat] /\ \A s \in Subs : pending'[s] >= pending[s]
    BY DEF Inv, TypeOK
  <1>3. EventsKept
    BY <1>2, NoEvent DEF Inv
  <1> QED
    BY <1>1, <1>2, <1>3, MoveInv

\* A request or a command that begins with the look-up of its user.
LEMMA BeginInv ==
  ASSUME Inv, NEW r \in Procs, NEW q \in Job, LocalsOK(q), q.pc = "user",
         Begin(r, q) \/ Command(r, q)
  PROVE  Inv'
PROOF
  <1>1. /\ job[r].pc = "idle" /\ job' = [job EXCEPT ![r] = q]
        /\ UNCHANGED <<env, user, stripe, audit, paid, settled, pending>>
    BY DEF Begin, Command, Set, Ready
  <1>2. Use("ops")
    BY DEF Begin, Command
  <1>3. TokenTypeOK'
    <2>1. CASE Begin(r, q)
      BY <2>1 DEF Begin, tokenVars, Inv, TypeOK, TokenTypeOK
    <2>2. CASE Command(r, q)
      <3>1. token' = token /\ shell' = [shell EXCEPT ![r] = Closed] /\ Closed \in Shell
        BY <2>2 DEF Command, Exit, Closed, Shell
      <3> QED
        BY <3>1 DEF Inv, TypeOK, TokenTypeOK
    <2> QED
      BY <2>1, <2>2
  <1> QED
    BY <1>1, <1>2, <1>3, UseType, StartInv DEF Inv

\* Requests and commands.
LEMMA AskInv ==
  ASSUME Inv, NEW r \in Procs, Ask(r)
  PROVE  Inv'
PROOF
  <1> PICK u \in env.users :
       \/ CreateCheckoutSession(r, u)
       \/ \E flag \in BOOLEAN : UpdateMaxArticles(r, u, flag) \/ SetAdmin(r, u, flag)
       \/ \E caller \in Users, flag \in BOOLEAN : SetAdminStatus(r, caller, u, flag)
       \/ \E caller \in Users : GrantMonths(r, caller, u)
       \/ GrantFree(r, u) \/ FixSubscription(r, u)
       \/ \E s \in Subs : SetSubscriptionID(r, u, s)
    BY DEF Ask
  <1>0. u \in Users
    BY EnvFields DEF Inv
  <1>i. Idle.caller = None /\ Idle.flag = FALSE /\ Idle \in Job
    BY IdleOK DEF Idle
  <1>1. CASE CreateCheckoutSession(r, u)
    <2> DEFINE q == [Idle EXCEPT !.pc = "user", !.kind = "checkout", !.u = u]
    <2>1. q \in Job /\ q.pc = "user" /\ q.kind = "checkout" /\ q.u = u
      BY <1>0, <1>i, ZenonT(60) DEF Job, Kinds
    <2>2. Begin(r, q)
      BY <1>1 DEF CreateCheckoutSession
    <2> HIDE DEF q
    <2>3. LocalsOK(q)
      BY <1>0, <2>1 DEF LocalsOK, Kinds
    <2> QED
      BY <2>1, <2>2, <2>3, BeginInv
  <1>2. ASSUME NEW flag \in BOOLEAN, UpdateMaxArticles(r, u, flag)
        PROVE  Inv'
    <2> DEFINE q == [Idle EXCEPT !.pc = "write", !.kind = "max", !.u = u, !.flag = flag]
    <2>1. q \in Job /\ q.pc = "write" /\ q.kind = "max" /\ q.u = u
      BY <1>0, <1>i, ZenonT(60) DEF Job, Kinds
    <2>2. Begin(r, q) /\ Known(u)
      BY <1>2 DEF UpdateMaxArticles
    <2> HIDE DEF q
    <2>3. LocalsOK(q) /\ Good(q) /\ Fresh(q)
      BY <1>0, <2>1, <2>2 DEF LocalsOK, Kinds, Good, Fresh, Syncing, Syncs, Writing
    <2>4. /\ job[r].pc = "idle" /\ job' = [job EXCEPT ![r] = q]
          /\ UNCHANGED <<env, user, stripe, audit, paid, settled, pending>>
      BY <2>2 DEF Begin, Set, Ready
    <2>5. TokenTypeOK'
      BY <2>2 DEF Begin, tokenVars, Inv, TypeOK, TokenTypeOK
    <2>6. pending' \in [Subs -> Nat] /\ \A s \in Subs : pending'[s] >= pending[s]
      BY <2>4 DEF Inv, TypeOK
    <2>7. EventsKept
      BY <2>1, <2>4, <2>6, NoEvent DEF Inv
    <2>8. left' \in [ops: Nat, changes: Nat, faults: Nat]
      BY <2>2, UseType DEF Begin, Inv
    <2> QED
      BY <2>1, <2>3, <2>4, <2>5, <2>6, <2>7, <2>8, MoveInv
  <1>3. ASSUME NEW flag \in BOOLEAN, SetAdmin(r, u, flag)
        PROVE  Inv'
    <2> DEFINE q == [Idle EXCEPT !.pc = "user", !.kind = "admin", !.u = u, !.flag = flag]
    <2>1. q \in Job /\ q.pc = "user" /\ q.kind = "admin" /\ q.u = u
      BY <1>0, <1>i, ZenonT(60) DEF Job, Kinds
    <2>2. Command(r, q)
      BY <1>3 DEF SetAdmin
    <2> HIDE DEF q
    <2>3. LocalsOK(q)
      BY <1>0, <2>1 DEF LocalsOK, Kinds
    <2> QED
      BY <2>1, <2>2, <2>3, BeginInv
  <1>4. ASSUME NEW caller \in Users, NEW flag \in BOOLEAN, SetAdminStatus(r, caller, u, flag)
        PROVE  Inv'
    <2> DEFINE q == [Idle EXCEPT !.pc = "user", !.kind = "admin", !.u = u, !.caller = caller,
                                 !.flag = flag]
    <2>1. q \in Job /\ q.pc = "user" /\ q.kind = "admin" /\ q.u = u
      BY <1>0, <1>i, ZenonT(60) DEF Job, Kinds
    <2>2. Begin(r, q)
      BY <1>4 DEF SetAdminStatus
    <2> HIDE DEF q
    <2>3. LocalsOK(q)
      BY <1>0, <2>1 DEF LocalsOK, Kinds
    <2> QED
      BY <2>1, <2>2, <2>3, BeginInv
  <1>5. ASSUME NEW caller \in Users, GrantMonths(r, caller, u)
        PROVE  Inv'
    <2> DEFINE q == [Idle EXCEPT !.pc = "user", !.kind = "grant", !.u = u, !.caller = caller]
    <2>1. q \in Job /\ q.pc = "user" /\ q.kind = "grant" /\ q.u = u
      BY <1>0, <1>i, ZenonT(60) DEF Job, Kinds
    <2>2. Begin(r, q)
      BY <1>5 DEF GrantMonths
    <2> HIDE DEF q
    <2>3. LocalsOK(q)
      BY <1>0, <2>1 DEF LocalsOK, Kinds
    <2> QED
      BY <2>1, <2>2, <2>3, BeginInv
  <1>6. CASE GrantFree(r, u)
    <2> DEFINE q == [Idle EXCEPT !.pc = "user", !.kind = "grant", !.u = u]
    <2>1. q \in Job /\ q.pc = "user" /\ q.kind = "grant" /\ q.u = u
      BY <1>0, <1>i, ZenonT(60) DEF Job, Kinds
    <2>2. Command(r, q)
      BY <1>6 DEF GrantFree
    <2> HIDE DEF q
    <2>3. LocalsOK(q)
      BY <1>0, <2>1 DEF LocalsOK, Kinds
    <2> QED
      BY <2>1, <2>2, <2>3, BeginInv
  <1>7. CASE FixSubscription(r, u)
    <2> DEFINE q == [Idle EXCEPT !.pc = "user", !.kind = "fix", !.u = u]
    <2>1. q \in Job /\ q.pc = "user" /\ q.kind = "fix" /\ q.u = u
      BY <1>0, <1>i, ZenonT(60) DEF Job, Kinds
    <2>2. Command(r, q)
      BY <1>7 DEF FixSubscription
    <2> HIDE DEF q
    <2>3. LocalsOK(q)
      BY <1>0, <2>1 DEF LocalsOK, Kinds
    <2> QED
      BY <2>1, <2>2, <2>3, BeginInv
  <1>8. ASSUME NEW s \in Subs, SetSubscriptionID(r, u, s)
        PROVE  Inv'
    <2> DEFINE q == [Idle EXCEPT !.pc = "user", !.kind = "setid", !.u = u, !.s = s]
    <2>1. q \in Job /\ q.pc = "user" /\ q.kind = "setid" /\ q.u = u /\ q.s = s
      BY <1>0, <1>i, ZenonT(60) DEF Job, Kinds
    <2>2. Command(r, q)
      BY <1>8 DEF SetSubscriptionID
    <2> HIDE DEF q
    <2>3. LocalsOK(q)
      BY <1>0, <2>1 DEF LocalsOK, Kinds
    <2> QED
      BY <2>1, <2>2, <2>3, BeginInv
  <1> QED
    BY <1>1, <1>2, <1>3, <1>4, <1>5, <1>6, <1>7, <1>8

\* A job that carries no event ends.
LEMMA EndInv ==
  ASSUME Inv, NEW r \in Procs, job' = [job EXCEPT ![r] = Idle],
         job[r].kind = "webhook" => job[r].pc \notin {"stripe", "write", "put"},
         UNCHANGED <<env, token, shell, user, stripe, audit, paid, settled, pending, left>>
  PROVE  Inv'
PROOF
  <1>1. TokenTypeOK' /\ left' \in [ops: Nat, changes: Nat, faults: Nat]
    BY DEF Inv, TypeOK, TokenTypeOK
  <1> QED
    BY <1>1, IdleOK, StartInv

\* The start-up goes on with the next configured email, or ends.
LEMMA NextEmailType ==
  ASSUME NEW todo \in Seq(Users)
  PROVE  /\ NextEmail(todo) \in Job /\ LocalsOK(NextEmail(todo))
         /\ NextEmail(todo).pc \in {"idle", "user"}
PROOF
  <1>1. CASE todo = <<>>
    BY <1>1, IdleOK DEF NextEmail
  <1>2. CASE todo # <<>>
    <2>1. Head(todo) \in Users /\ Tail(todo) \in Seq(Users)
      BY <1>2
    <2> DEFINE q == [Idle EXCEPT !.pc = "user", !.kind = "startup", !.u = Head(todo),
                                 !.flag = TRUE, !.todo = Tail(todo)]
    <2>2. q \in Job /\ q.pc = "user" /\ q.kind = "startup" /\ q.u = Head(todo)
      BY <2>1, IdleOK DEF Job, Kinds
    <2>3. NextEmail(todo) = q
      BY <1>2 DEF NextEmail
    <2> HIDE DEF q
    <2>4. LocalsOK(q)
      BY <2>1, <2>2 DEF LocalsOK, Kinds
    <2> QED
      BY <2>2, <2>3, <2>4
  <1> QED
    BY <1>1, <1>2

\* An instance starts.
LEMMA StartupInv ==
  ASSUME Inv, NEW r \in Procs, Startup(r)
  PROVE  Inv'
PROOF
  <1> DEFINE q == NextEmail(env.initial)
  <1>1. q \in Job /\ LocalsOK(q) /\ q.pc \in {"idle", "user"}
    BY EnvFields, NextEmailType DEF Inv
  <1> HIDE DEF q
  <1>2. /\ job[r].pc = "idle" /\ job' = [job EXCEPT ![r] = q]
        /\ UNCHANGED <<env, user, stripe, audit, paid, settled, pending>>
    BY DEF Startup, Set, Ready, q
  <1>3. TokenTypeOK' /\ left' \in [ops: Nat, changes: Nat, faults: Nat]
    BY DEF Startup, tokenVars, Inv, TypeOK, TokenTypeOK
  <1> QED
    BY <1>1, <1>2, <1>3, StartInv

\* What a job does with the user it looked up.
LEMMA LookedUp ==
  ASSUME Inv, NEW q \in Job, LocalsOK(q), q.pc = "user"
  PROVE  /\ AfterLookup(q) \in Job /\ LocalsOK(AfterLookup(q))
         /\ Good(AfterLookup(q)) /\ Fresh(AfterLookup(q)) /\ AfterLookup(q).pc # "log"
PROOF
  <1> DEFINE n == AfterLookup(q)
             w == [q EXCEPT !.pc = "write"]
             f == [q EXCEPT !.pc = "stripe", !.s = user[q.u].sub]
             d == [q EXCEPT !.pc = "write", !.status = user[q.u].status]
             c == [q EXCEPT !.pc = "checkout"]
  <1>0. q.u \in Users /\ q.kind \in Kinds \ {"webhook"}
    BY DEF LocalsOK
  <1>1. CASE n = Idle
    BY <1>1, IdleOK
  <1>2. CASE q.kind = "startup" /\ n = NextEmail(q.todo)
    <2>1. n \in Job /\ LocalsOK(n) /\ n.pc \in {"idle", "user"}
      BY <1>2, JobFields, NextEmailType
    <2> HIDE DEF n
    <2>2. Good(n) /\ Fresh(n)
      BY <2>1 DEF Good, Fresh, Syncing, Writing
    <2> QED
      BY <2>1, <2>2 DEF n
  <1>3. CASE Known(q.u) /\ q.kind \in {"startup", "admin", "grant", "max"} /\ n = w
    <2>1. w \in Job /\ w.pc = "write" /\ w.kind = q.kind /\ w.u = q.u
      BY DEF Job
    <2> HIDE DEF n, w
    <2>2. LocalsOK(w) /\ Good(w) /\ Fresh(w)
      BY <1>0, <1>3, <2>1 DEF LocalsOK, Good, Fresh, Syncing, Syncs, Writing
    <2> QED
      BY <1>3, <2>1, <2>2 DEF n
  <1>4. CASE Known(q.u) /\ q.kind = "checkout" /\ n = c
    <2>1. c \in Job /\ c.pc = "checkout" /\ c.kind = q.kind /\ c.u = q.u
      BY DEF Job
    <2> HIDE DEF n, c
    <2>2. LocalsOK(c) /\ Good(c) /\ Fresh(c)
      BY <1>0, <1>4, <2>1 DEF LocalsOK, Good, Fresh, Syncing, Syncs, Writing
    <2> QED
      BY <1>4, <2>1, <2>2 DEF n
  <1>5. CASE Known(q.u) /\ q.kind = "fix" /\ user[q.u].sub # None /\ n = f
    <2>0. user[q.u].sub \in Subs
      BY <1>0, <1>5, UserType, RowFields DEF Inv
    <2>1. f \in Job /\ f.pc = "stripe" /\ f.kind = q.kind /\ f.u = q.u /\ f.s = user[q.u].sub
      BY <2>0 DEF Job
    <2> HIDE DEF n, f
    <2>2. LocalsOK(f) /\ Good(f) /\ Fresh(f)
      BY <1>0, <1>5, <2>0, <2>1 DEF LocalsOK, Good, Fresh, Syncing, Syncs, Writing
    <2> QED
      BY <1>5, <2>1, <2>2 DEF n
  <1>6. CASE Known(q.u) /\ q.kind = "setid" /\ n = d
    <2>0. user[q.u].status \in Status
      BY <1>0, <1>6, UserType, RowFields DEF Inv
    <2>1. /\ d \in Job /\ d.pc = "write" /\ d.kind = q.kind /\ d.u = q.u /\ d.s = q.s
          /\ d.status = user[q.u].status
      BY <2>0 DEF Job
    <2>2. user[q.u].status = "active" => Paid(q.u)
      BY <1>0, <1>6 DEF Inv, ActiveWasPaid, Bills, Paid
    <2>3. q.s \in Subs
      BY <1>6 DEF LocalsOK
    <2> HIDE DEF n, d
    <2>4. LocalsOK(d) /\ Good(d) /\ Fresh(d)
      BY <1>0, <1>6, <2>1, <2>2, <2>3 DEF LocalsOK, Good, Fresh, Syncing, Syncs, Writing
    <2> QED
      BY <1>6, <2>1, <2>4 DEF n
  <1>7. \/ n = Idle
        \/ q.kind = "startup" /\ n = NextEmail(q.todo)
        \/ Known(q.u) /\ q.kind \in {"startup", "admin", "grant", "max"} /\ n = w
        \/ Known(q.u) /\ q.kind = "checkout" /\ n = c
        \/ Known(q.u) /\ q.kind = "fix" /\ user[q.u].sub # None /\ n = f
        \/ Known(q.u) /\ q.kind = "setid" /\ n = d
    <2>1. CASE q.kind = "startup"
      BY <2>1 DEF AfterLookup, AfterEmail
    <2>2. CASE q.kind # "startup" /\ ~Known(q.u)
      BY <2>2 DEF AfterLookup
    <2>3. CASE Known(q.u) /\ q.kind = "checkout"
      BY <2>3 DEF AfterLookup
    <2>4. CASE Known(q.u) /\ q.kind = "fix"
      BY <2>4 DEF AfterLookup
    <2>5. CASE Known(q.u) /\ q.kind = "setid"
      BY <2>5 DEF AfterLookup
    <2>6. CASE Known(q.u) /\ q.kind \in {"admin", "grant", "max"}
      BY <2>6 DEF AfterLookup
    <2> QED
      BY <1>0, <2>1, <2>2, <2>3, <2>4, <2>5, <2>6 DEF Kinds
  <1> QED
    BY <1>1, <1>2, <1>3, <1>4, <1>5, <1>6, <1>7

\* A step of a job that only the job itself notices.
LEMMA QuietInv ==
  ASSUME Inv, NEW r \in Procs, NEW q \in Job, LocalsOK(q), Good(q), Fresh(q), q.pc # "log",
         job[r].kind = "webhook" => job[r].pc \notin {"stripe", "write", "put"},
         job' = [job EXCEPT ![r] = q],
         UNCHANGED <<env, tokenVars, user, stripe, pending, audit, left, paid, settled>>
  PROVE  Inv'
PROOF
  <1>1. /\ TokenTypeOK' /\ left' \in [ops: Nat, changes: Nat, faults: Nat]
        /\ pending' \in [Subs -> Nat] /\ \A s \in Subs : pending'[s] >= pending[s]
    BY DEF tokenVars, Inv, TypeOK, TokenTypeOK
  <1>2. EventsKept
    BY <1>1, NoEvent DEF Inv
  <1> QED
    BY <1>1, <1>2, MoveInv

\* A job looks its user up.
LEMMA LookupInv ==
  ASSUME Inv, NEW r \in Procs, Lookup(r)
  PROVE  Inv'
PROOF
  <1> DEFINE q == AfterLookup(job[r])
  <1>1. job[r] \in Job /\ LocalsOK(job[r]) /\ job[r].pc = "user"
    BY DEF Lookup, Inv, TypeOK
  <1>2. q \in Job /\ LocalsOK(q) /\ Good(q) /\ Fresh(q) /\ q.pc # "log"
    BY <1>1, LookedUp
  <1>3. /\ job' = [job EXCEPT ![r] = q]
        /\ UNCHANGED <<env, tokenVars, user, stripe, pending, audit, left, paid, settled>>
    BY DEF Lookup, Set
  <1> HIDE DEF q
  <1> QED
    BY <1>1, <1>2, <1>3, QuietInv

\* An event goes from Stripe to a handler.
LEMMA DeliverInv ==
  ASSUME Inv, NEW r \in Procs, NEW s \in Subs, Deliver(r, s)
  PROVE  Inv'
PROOF
  <1> DEFINE q == [Idle EXCEPT !.pc = "stripe", !.kind = "webhook", !.s = s]
  <1>1. q \in Job /\ q.pc = "stripe" /\ q.kind = "webhook" /\ q.s = s
    BY IdleOK DEF Job, Kinds
  <1>2. /\ job' = [job EXCEPT ![r] = q] /\ job[r].pc = "idle"
        /\ UNCHANGED <<env, tokenVars, user, stripe, audit, left, paid, settled>>
        /\ pending' = [pending EXCEPT ![s] = pending[s] - 1] /\ pending[s] > 0
    BY DEF Deliver, Set, Ready
  <1> HIDE DEF q
  <1>3. LocalsOK(q) /\ Good(q) /\ Fresh(q)
    BY <1>1 DEF LocalsOK, Kinds, Good, Fresh, Syncing, Writing
  <1>4. /\ TokenTypeOK' /\ left' \in [ops: Nat, changes: Nat, faults: Nat]
        /\ pending' \in [Subs -> Nat] /\ \A x \in Subs \ {s} : pending'[x] = pending[x]
    BY <1>2 DEF tokenVars, Inv, TypeOK, TokenTypeOK
  <1>5. job'[r] = q /\ \A p \in Procs : p # r => job'[p] = job[p]
    BY <1>2 DEF Inv, TypeOK
  <1>6. Coming(s)' /\ OnItsWay(s)'
    BY <1>1, <1>5 DEF Coming, OnItsWay, Asks, Brings
  <1>7. ASSUME NEW x \in Subs, x # s
        PROVE  (Coming(x) => Coming(x)') /\ (OnItsWay(x) => OnItsWay(x)')
    BY <1>2, <1>4, <1>5, <1>7 DEF Coming, OnItsWay, Asks, Brings
  <1>8. EventsKept
    BY <1>6, <1>7 DEF EventsKept
  <1> QED
    BY <1>1, <1>2, <1>3, <1>4, <1>8, MoveInv

\* Stripe does not know the subscription; no event is about one that never existed.
LEMMA NoSuchInv ==
  ASSUME Inv, NEW r \in Procs, NoSuchSubscription(r)
  PROVE  Inv'
PROOF
  <1>1. /\ job' = [job EXCEPT ![r] = Idle] /\ job[r].pc = "stripe" /\ stripe[job[r].s] = None
        /\ UNCHANGED <<env, tokenVars, user, stripe, pending, audit, left, paid, settled>>
    BY DEF NoSuchSubscription, Set
  <1>2. /\ TokenTypeOK' /\ left' \in [ops: Nat, changes: Nat, faults: Nat]
        /\ pending' \in [Subs -> Nat]
    BY <1>1 DEF tokenVars, Inv, TypeOK, TokenTypeOK
  <1>3. \A p \in Procs : p # r => job'[p] = job[p]
    BY <1>1 DEF Inv, TypeOK
  <1>4. ASSUME NEW x \in Subs, stripe[x] # None
        PROVE  (Coming(x) => Coming(x)') /\ (OnItsWay(x) => OnItsWay(x)')
    <2>1. ~Asks(job[r], x) /\ ~Brings(job[r], x)
      BY <1>1, <1>4 DEF Asks, Brings
    <2> QED
      BY <1>1, <1>3, <2>1 DEF Coming, OnItsWay, Asks, Brings
  <1>5. EventsKept
    BY <1>4 DEF EventsKept
  <1> QED
    BY <1>1, <1>2, <1>5, IdleOK, MoveInv

\* Datastore reads the row it will put back.
LEMMA GetInv ==
  ASSUME Inv, NEW r \in Procs, Get(r)
  PROVE  Inv'
PROOF
  <1> DEFINE x == job[r]
             q == [x EXCEPT !.pc = "put", !.copy = user[x.u]]
  <1>1. /\ x \in Job /\ LocalsOK(x) /\ Good(x) /\ Fresh(x) /\ x.pc = "write" /\ env.datastore
        /\ UNCHANGED <<env, tokenVars, user, stripe, pending, audit, left, paid, settled>>
    BY DEF Get, Inv, TypeOK, Jobs
  <1>2. x.u \in Users /\ Known(x.u) /\ user[x.u] \in Row
    BY <1>1, UserType DEF LocalsOK, Good, Inv
  <1>3. CASE x.kind = "max" /\ ~x.flag
    <2>1. job' = [job EXCEPT ![r] = Idle] /\ job[r].kind = "max"
      BY <1>3 DEF Get, Set
    <2> QED
      BY <1>1, <2>1, EndInv DEF tokenVars
  <1>4. CASE ~(x.kind = "max" /\ ~x.flag)
    <2>1. job' = [job EXCEPT ![r] = q]
      BY <1>4 DEF Get, Set
    <2>2. /\ q \in Job /\ q.pc = "put" /\ q.copy = user[x.u] /\ q.kind = x.kind /\ q.u = x.u
          /\ q.s = x.s /\ q.status = x.status /\ q.alone = x.alone
      BY <1>1, <1>2 DEF Job
    <2> HIDE DEF q
    <2>3. user[x.u].status = "active" => Paid(x.u)
      BY <1>2 DEF Inv, ActiveWasPaid, Bills, Paid
    <2>4. LocalsOK(q) /\ Good(q) /\ Fresh(q)
      BY <1>1, <1>2, <2>2, <2>3 DEF LocalsOK, Good, Fresh, Syncing, Syncs, Writing
    <2>5. job'[r] = q /\ \A p \in Procs : p # r => job'[p] = job[p]
      BY <2>1, <2>2 DEF Inv, TypeOK
    <2>6. \A s : ~Asks(x, s) /\ (Brings(x, s) => Brings(q, s))
      BY <1>1, <2>2 DEF Asks, Brings
    <2> HIDE DEF x
    <2>7. EventsKept
      BY <1>1, <2>5, <2>6 DEF EventsKept, Coming, OnItsWay, Asks, Brings, x
    <2>8. /\ TokenTypeOK' /\ left' \in [ops: Nat, changes: Nat, faults: Nat]
          /\ pending' \in [Subs -> Nat]
      BY <1>1 DEF tokenVars, Inv, TypeOK, TokenTypeOK
    <2> QED
      BY <1>1, <2>1, <2>2, <2>4, <2>7, <2>8, MoveInv
  <1> QED
    BY <1>3, <1>4

\* The transaction of SetUserAdminAtomic starts again.
LEMMA RetryInv ==
  ASSUME Inv, NEW r \in Procs, Commit(r), user[job[r].u] # job[r].copy
  PROVE  Inv'
PROOF
  <1> DEFINE x == job[r]
             q == [x EXCEPT !.pc = "write", !.copy = None]
  <1>1. /\ x \in Job /\ LocalsOK(x) /\ Good(x) /\ x.pc = "put" /\ x.kind = "admin"
        /\ UNCHANGED <<env, tokenVars, user, stripe, pending, audit, left, paid, settled>>
        /\ job' = [job EXCEPT ![r] = q]
    BY DEF Commit, Set, Inv, TypeOK, Jobs
  <1>2. q \in Job /\ q.pc = "write" /\ q.kind = x.kind /\ q.u = x.u /\ q.s = x.s
    BY <1>1 DEF Job
  <1> HIDE DEF q
  <1>3. LocalsOK(q) /\ Good(q) /\ Fresh(q)
    BY <1>1, <1>2 DEF LocalsOK, Good, Fresh, Syncing, Syncs, Writing
  <1> QED
    BY <1>1, <1>2, <1>3, QuietInv

\* A job fails; when it carries an event, the event is delivered again.
LEMMA FailInv ==
  ASSUME Inv, NEW r \in Procs, Fail(r)
  PROVE  Inv'
PROOF
  <1> DEFINE x == job[r]
  <1>1. /\ x \in Job /\ LocalsOK(x) /\ x.pc \notin {"idle", "checkout"}
        /\ UNCHANGED <<env, tokenVars, user, stripe, audit, paid, settled>>
    BY DEF Fail, Inv, TypeOK
  <1>2. TokenTypeOK' /\ left' \in [ops: Nat, changes: Nat, faults: Nat]
    BY <1>1, UseType DEF Fail, tokenVars, Inv, TypeOK, TokenTypeOK
  <1>3. CASE x.kind = "webhook"
    <2>1. PICK e \in Subs : e = x.s
      BY <1>1, <1>3 DEF LocalsOK
    <2>2. pending' = [pending EXCEPT ![e] = pending[e] + 1] /\ job' = [job EXCEPT ![r] = Idle]
      BY <1>3, <2>1 DEF Fail, Set, Backlog
    <2>3. /\ pending' \in [Subs -> Nat] /\ pending'[e] > 0
          /\ \A s \in Subs \ {e} : pending'[s] = pending[s]
      BY <2>1, <2>2 DEF Inv, TypeOK
    <2>4. \A p \in Procs : p # r => job'[p] = job[p]
      BY <2>2 DEF Inv, TypeOK
    <2>5. ASSUME NEW s \in Subs, s # e
          PROVE  (Coming(s) => Coming(s)') /\ (OnItsWay(s) => OnItsWay(s)')
      <3>1. ~Asks(job[r], s) /\ ~Brings(job[r], s) /\ pending'[s] = pending[s]
        BY <2>1, <2>3, <2>5 DEF Asks, Brings
      <3> QED
        BY <2>4, <3>1 DEF Coming, OnItsWay, Asks, Brings
    <2>6. Coming(e)' /\ OnItsWay(e)'
      BY <2>3 DEF Coming, OnItsWay
    <2>7. EventsKept
      BY <2>5, <2>6 DEF EventsKept
    <2> QED
      BY <1>1, <1>2, <2>2, <2>3, <2>7, IdleOK, MoveInv
  <1>4. CASE x.kind # "webhook"
    <2>1. pending' = pending
      BY <1>4 DEF Fail
    <2>2. job' = [job EXCEPT ![r] = Idle] \/ job' = [job EXCEPT ![r] = NextEmail(x.todo)]
      BY DEF Fail, Set
    <2>3. /\ NextEmail(x.todo) \in Job /\ LocalsOK(NextEmail(x.todo))
          /\ NextEmail(x.todo).pc \in {"idle", "user"}
      BY <1>1, JobFields, NextEmailType
    <2>4. CASE job' = [job EXCEPT ![r] = Idle]
      BY <1>1, <1>2, <1>4, <2>1, <2>4, IdleOK, StartInv
    <2>5. CASE job' = [job EXCEPT ![r] = NextEmail(x.todo)]
      <3> DEFINE q == NextEmail(x.todo)
      <3> HIDE DEF q
      <3> QED
        BY <1>1, <1>2, <1>4, <2>1, <2>3, <2>5, StartInv DEF q
    <2> QED
      BY <2>2, <2>4, <2>5
  <1> QED
    BY <1>3, <1>4

\* The end of a grant: its success goes into the audit log.
LEMMA LogInv ==
  ASSUME Inv, NEW r \in Procs, LogSuccess(r)
  PROVE  Inv'
PROOF
  <1>1. /\ job[r].pc = "log" /\ job' = [job EXCEPT ![r] = Idle]
        /\ UNCHANGED <<env, tokenVars, user, stripe, pending, left, paid, settled>>
    BY DEF LogSuccess, Set
  <1>2. CASE job[r].kind # "grant"
    BY <1>1, <1>2, EndInv DEF LogSuccess, tokenVars
  <1>3. CASE job[r].kind = "grant"
    <2>1. PICK u \in Users : u = job[r].u
      BY <1>1 DEF Inv, TypeOK, LocalsOK
    <2>2. audit' = [audit EXCEPT ![u] = audit[u] + 1]
      BY <1>3, <2>1 DEF LogSuccess, CreateAuditLog
    <2>3. /\ audit' \in [Users -> Nat] /\ audit'[u] = audit[u] + 1
          /\ \A w \in Users \ {u} : audit'[w] = audit[w]
      BY <2>2 DEF Inv, TypeOK
    <2>4. job'[r] = Idle /\ \A p \in Procs : p # r => job'[p] = job[p]
      BY <1>1 DEF Inv, TypeOK
    <2>5. TypeOK'
      <3>1. job' \in [Procs -> Job] /\ \A p \in Procs : LocalsOK(job'[p])
        BY <1>1, <2>4, IdleOK DEF Inv, TypeOK
      <3> QED
        BY <1>1, <2>3, <3>1 DEF tokenVars, Inv, TypeOK, TokenTypeOK
    <2>6. \A s : ~Asks(job[r], s) /\ ~Brings(job[r], s)
      BY <1>1 DEF Asks, Brings
    <2>7. \A s \in Subs : (Coming(s) => Coming(s)') /\ (OnItsWay(s) => OnItsWay(s)')
      BY <1>1, <2>4, <2>6 DEF Coming, OnItsWay, Asks, Brings
    <2>8. Jobs'
      <3> SUFFICES ASSUME NEW p \in Procs
                   PROVE  (Good(job[p]) /\ Fresh(job[p]))'
        BY DEF Jobs
      <3>1. CASE p = r
        BY <3>1, <2>4, IdleOK DEF Good, Fresh, Syncing, Writing
      <3>2. CASE p # r
        <4>1. PICK x \in Job : x = job[p] /\ x = job'[p] /\ LocalsOK(x) /\ Good(x) /\ Fresh(x)
          BY <2>4, <3>2 DEF Inv, TypeOK, Jobs
        <4>2. Good(x)'
          BY <1>1, <4>1 DEF Good, Known, Paid, Syncing, Writing, Syncs
        <4>3. Fresh(x)'
          <5>1. Syncing(x) => x.s \in Subs
            BY <4>1 DEF LocalsOK, Syncing, Syncs, Writing
          <5> QED
            BY <1>1, <2>7, <4>1, <5>1 DEF Fresh, Syncing, Syncs, Writing, Convert
        <4> QED
          BY <4>1, <4>2, <4>3 DEF Good, Fresh, Known, Syncing, Writing, Syncs
      <3> QED
        BY <3>1, <3>2
    <2>9. Bills' /\ ActiveWasPaid'
      BY <1>1 DEF Inv, Bills, ActiveWasPaid, Known
    <2>10. Settled'
      <3> SUFFICES ASSUME NEW w \in settled
                   PROVE  Follows(w)'
        BY <1>1 DEF Settled
      <3>1. Follows(w) /\ w \in Users
        BY DEF Inv, Settled, TypeOK
      <3>2. user[w].sub \in Subs
        BY <3>1, UserType, RowFields DEF Inv, Follows
      <3> QED
        BY <1>1, <2>7, <3>1, <3>2 DEF Follows, Known, Convert
    <2>11. Granted'
      <3> SUFFICES ASSUME ~env.datastore, NEW w \in Users
                   PROVE  audit'[w] + Cardinality(ToLog(w)') <= IF Known(w) THEN user[w].free ELSE 0
        BY <1>1 DEF Granted, Known
      <3>1. PICK n : n = IF Known(w) THEN user[w].free ELSE 0
        OBVIOUS
      <3>2. audit[w] + Cardinality(ToLog(w)) <= n /\ n \in Nat /\ audit[w] \in Nat
        BY <3>1, UserType, RowFields DEF Inv, Granted, TypeOK
      <3>3. IsFiniteSet(ToLog(w)) /\ Cardinality(ToLog(w)) \in Nat
        BY FS_Subset, FS_CardinalityType DEF ToLog
      <3>4. CASE w = u
        <4>1. ToLog(w)' = ToLog(w) \ {r} /\ r \in ToLog(w)
          BY <1>1, <1>3, <2>1, <2>4, <3>4, IdleOK DEF ToLog
        <4>2. Cardinality(ToLog(w)') = Cardinality(ToLog(w)) - 1
          BY <3>3, <4>1, FS_RemoveElement, ZenonT(60)
        <4> QED
          BY <2>3, <3>1, <3>2, <3>3, <3>4, <4>2
      <3>5. CASE w # u
        <4>1. ToLog(w)' = ToLog(w)
          BY <2>1, <2>4, <3>5, IdleOK DEF ToLog
        <4> QED
          BY <2>3, <3>1, <3>2, <3>5, <4>1
      <3> QED
        BY <3>4, <3>5
    <2> QED
      BY <2>5, <2>8, <2>9, <2>10, <2>11 DEF Inv
  <1> QED
    BY <1>2, <1>3

-----------------------------------------------------------------------------
(* The writes of a job.                                                      *)

\* How a job goes on after its write.
LEMMA Written ==
  ASSUME NEW q \in Job, LocalsOK(q), Writing(q)
  PROVE  /\ AfterWrite(q) \in Job /\ LocalsOK(AfterWrite(q))
         /\ AfterWrite(q).pc \in {"idle", "user", "stripe", "log", "ack"}
         /\ AfterWrite(q).pc = "log" => AfterWrite(q).u = q.u /\ AfterWrite(q).kind = q.kind
PROOF
  <1> DEFINE n == AfterWrite(q)
             a == [q EXCEPT !.pc = "ack"]
             f == [q EXCEPT !.kind = "fix", !.pc = "stripe"]
             l == [q EXCEPT !.pc = "log"]
  <1>0. q.u \in Users /\ q.kind \in Kinds \ {"checkout"}
    BY DEF LocalsOK, Writing
  <1>1. CASE q.kind = "webhook"
    <2>1. n = a
      BY <1>1 DEF AfterWrite
    <2>2. a \in Job /\ a.pc = "ack" /\ a.kind = q.kind /\ a.u = q.u /\ a.s = q.s
      BY DEF Job
    <2> HIDE DEF a, n
    <2>3. LocalsOK(a)
      BY <1>0, <1>1, <2>2 DEF LocalsOK, Writing
    <2> QED
      BY <2>1, <2>2, <2>3 DEF n
  <1>2. CASE q.kind = "setid"
    <2>1. n = f
      BY <1>2 DEF AfterWrite
    <2>2. f \in Job /\ f.pc = "stripe" /\ f.kind = "fix" /\ f.u = q.u /\ f.s = q.s
      BY DEF Job, Kinds
    <2> HIDE DEF f, n
    <2>3. LocalsOK(f)
      BY <1>0, <1>2, <2>2 DEF LocalsOK, Writing, Kinds
    <2> QED
      BY <2>1, <2>2, <2>3 DEF n
  <1>3. CASE q.kind \in {"admin", "grant"}
    <2>1. n = l
      BY <1>3 DEF AfterWrite
    <2>2. l \in Job /\ l.pc = "log" /\ l.kind = q.kind /\ l.u = q.u /\ l.s = q.s
      BY DEF Job
    <2> HIDE DEF l, n
    <2>3. LocalsOK(l)
      BY <1>0, <1>3, <2>2 DEF LocalsOK, Writing
    <2> QED
      BY <2>1, <2>2, <2>3 DEF n
  <1>4. CASE q.kind = "startup"
    <2>1. n = NextEmail(q.todo)
      BY <1>4 DEF AfterWrite
    <2>2. /\ NextEmail(q.todo) \in Job /\ LocalsOK(NextEmail(q.todo))
          /\ NextEmail(q.todo).pc \in {"idle", "user"}
      BY JobFields, NextEmailType
    <2> HIDE DEF n
    <2> QED
      BY <2>1, <2>2 DEF n
  <1>5. CASE q.kind \in {"fix", "max"}
    <2>1. n = Idle
      BY <1>5 DEF AfterWrite
    <2> QED
      BY <2>1, IdleOK
  <1> QED
    BY <1>0, <1>1, <1>2, <1>3, <1>4, <1>5 DEF Kinds

\* The row that a job writes, from a row w of its user.
LEMMA Changed ==
  ASSUME NEW q \in Job, LocalsOK(q), Writing(q), NEW w \in Row
  PROVE  /\ Change(q, w) \in Row
         /\ q.kind \in {"webhook", "fix", "setid"} => /\ Change(q, w).status = q.status
                                                     /\ Change(q, w).sub = q.s
         /\ q.kind \notin {"webhook", "fix", "setid"} => /\ Change(q, w).status = w.status
                                                        /\ Change(q, w).sub = w.sub
         /\ Change(q, w).free = IF q.kind = "grant" THEN w.free + 1 ELSE w.free
PROOF
  <1>0. q.kind \in Kinds \ {"checkout"} /\ q.s \in Subs \cup {None} /\ q.status \in Status
         /\ q.flag \in BOOLEAN
    BY JobFields DEF LocalsOK, Writing
  <1>1. CASE q.kind \in {"webhook", "fix", "setid"}
    <2>1. Change(q, w) = [w EXCEPT !.status = q.status, !.sub = q.s]
      BY <1>1 DEF Change, UpdateUserSubscription
    <2> QED
      BY <1>0, <1>1, <2>1, ZenonT(60) DEF Row
  <1>2. CASE q.kind \in {"admin", "startup"}
    <2>1. Change(q, w) = [w EXCEPT !.admin = q.flag]
      BY <1>2 DEF Change, SetUserAdmin
    <2> QED
      BY <1>0, <1>2, <2>1 DEF Row
  <1>3. CASE q.kind = "grant"
    <2>1. Change(q, w) = [w EXCEPT !.free = @ + 1]
      BY <1>3 DEF Change, GrantFreeMonths
    <2> QED
      BY <1>0, <1>3, <2>1 DEF Row
  <1>4. CASE q.kind = "max"
    <2>1. PICK n \in {0, 50} : Change(q, w) = [w EXCEPT !.max = n]
      BY <1>4 DEF Change, UpdateUserMaxArticlesOnFeedAdd
    <2> QED
      BY <1>0, <1>4, <2>1 DEF Row
  <1> QED
    BY <1>0, <1>1, <1>2, <1>3, <1>4 DEF Kinds

\* A row is written and the job goes on.  free: what must hold on SQLite only, where
\* nobody else's months are lost.
LEMMA SaveInv ==
  ASSUME Inv, NEW r \in Procs, Writing(job[r]), NEW row \in Row, Save(r, row),
         row.status = "active" => Paid(job[r].u),
         Syncs(job[r]) => row.status = job[r].status /\ row.sub = job[r].s,
         ~env.datastore => row.free = IF job[r].kind = "grant" THEN user[job[r].u].free + 1
                                                              ELSE user[job[r].u].free
  PROVE  Inv'
PROOF
  <1>1. PICK q \in Job : q = job[r] /\ LocalsOK(q) /\ Good(q) /\ Fresh(q) /\ Writing(q)
    BY DEF Inv, TypeOK, Jobs
  <1>2. PICK n \in Job : /\ n = AfterWrite(q) /\ LocalsOK(n)
                         /\ n.pc \in {"idle", "user", "stripe", "log", "ack"}
                         /\ n.pc = "log" => n.u = q.u /\ n.kind = q.kind
    BY <1>1, Written
  <1>3. PICK u \in Users : u = q.u
    BY <1>1 DEF LocalsOK, Writing
  <1>4. /\ Known(u) /\ user[u] \in Row
        /\ row.status = "active" => Paid(u)
        /\ Syncs(q) => row.status = q.status /\ row.sub = q.s
        /\ ~env.datastore => row.free = IF q.kind = "grant" THEN user[u].free + 1 ELSE user[u].free
    BY <1>1, <1>3, UserType DEF Good, Writing, Inv
  <1>5. /\ user' = [user EXCEPT ![u] = row] /\ job' = [job EXCEPT ![r] = n]
        /\ UNCHANGED <<env, token, shell, stripe, pending, audit, left, paid>>
        /\ settled' = IF Syncs(q) /\ q.alone THEN settled \cup {u}
                      ELSE IF /\ user[u].status = row.status /\ user[u].sub = row.sub
                              /\ ~Syncs(q) /\ q.kind # "setid" THEN settled
                      ELSE settled \ {u}
    BY <1>1, <1>2, <1>3 DEF Save, Set, tokenVars
  <1>6. /\ job' \in [Procs -> Job] /\ job'[r] = n /\ \A p \in Procs : p # r => job'[p] = job[p]
        /\ user' \in [Users -> Row \cup {None}] /\ user'[u] = row
        /\ \A w \in Users : w # u => user'[w] = user[w]
    BY <1>5 DEF Inv, TypeOK
  <1>7. TypeOK'
    <2>1. \A p \in Procs : LocalsOK(job'[p])
      BY <1>2, <1>6 DEF Inv, TypeOK
    <2>2. settled' \subseteq Users
      BY <1>5 DEF Inv, TypeOK
    <2> QED
      BY <1>5, <1>6, <2>1, <2>2 DEF Inv, TypeOK, TokenTypeOK
  <1>8. /\ \A w \in Users : Known(w) => Known(w)'
        /\ \A w : Paid(w) => Paid(w)'
    BY <1>5, <1>6 DEF Known, Paid
  <1>9. \A s \in Subs : Coming(s) => Coming(s)'
    <2>1. \A s : ~Asks(q, s)
      BY <1>1 DEF Asks, Writing
    <2> QED
      BY <1>1, <1>5, <1>6, <2>1 DEF Coming, Asks
  <1>10. \A s \in Subs : OnItsWay(s) /\ ~Brings(q, s) => OnItsWay(s)'
    BY <1>1, <1>5, <1>6 DEF OnItsWay, Brings
  <1>11. Jobs'
    <2> SUFFICES ASSUME NEW p \in Procs
                 PROVE  (Good(job[p]) /\ Fresh(job[p]))'
      BY DEF Jobs
    <2>1. CASE p = r
      <3>1. Good(n)'
        BY <1>2, <1>3, <1>4, <1>8 DEF Good, Syncing, Writing
      <3>2. Fresh(n)'
        BY <1>2 DEF Fresh, Syncing, Writing
      <3> QED
        BY <2>1, <1>6, <3>1, <3>2 DEF Good, Fresh, Known, Syncing, Writing, Syncs
    <2>2. CASE p # r
      <3>1. PICK x \in Job : x = job[p] /\ x = job'[p] /\ LocalsOK(x) /\ Good(x) /\ Fresh(x)
        BY <1>6, <2>2 DEF Inv, TypeOK, Jobs
      <3>2. x.pc \in {"checkout", "write", "put", "log"} => Known(x.u)'
        BY <1>8, <3>1 DEF Good, LocalsOK
      <3>3. Good(x)'
        BY <1>5, <1>8, <3>1, <3>2 DEF Good, Syncing, Writing, Syncs
      <3>4. Syncing(x) => x.s \in Subs
        BY <3>1 DEF LocalsOK, Syncing, Syncs, Writing
      <3>5. Fresh(x)'
        BY <1>5, <1>9, <3>1, <3>4 DEF Fresh, Syncing, Syncs, Writing, Convert
      <3> QED
        BY <3>1, <3>3, <3>5 DEF Good, Fresh, Known, Syncing, Writing, Syncs
    <2> QED
      BY <2>1, <2>2
  <1>12. Bills'
    <2>1. \A s \in Subs : stripe[s] # None => stripe[s].owner \in Users
      BY StripeType DEF Inv
    <2> QED
      BY <1>5, <1>8, <2>1 DEF Inv, Bills
  <1>13. ActiveWasPaid'
    <2> SUFFICES ASSUME NEW w \in Users, user'[w] # None, user'[w].status = "active"
                 PROVE  \E s \in paid : stripe[s].owner = w
      BY <1>5 DEF ActiveWasPaid, Known
    <2>1. CASE w = u
      BY <1>4, <1>6, <2>1 DEF Paid
    <2>2. CASE w # u
      BY <1>6, <2>2 DEF Inv, ActiveWasPaid, Known
    <2> QED
      BY <2>1, <2>2
  <1>14. Settled'
    <2> SUFFICES ASSUME NEW w \in settled'
                 PROVE  Follows(w)'
      BY DEF Settled
    <2>0. w \in Users
      BY <1>7 DEF TypeOK
    <2>1. CASE w # u
      <3>1. w \in settled /\ Follows(w)
        BY <1>5, <2>1 DEF Inv, Settled
      <3>2. PICK s \in Subs : s = user[w].sub
        BY <2>0, <3>1, UserType, RowFields DEF Inv, Follows
      <3>3. ~Brings(q, s)
        BY <1>1, <1>3, <2>1, <3>1, <3>2 DEF Follows, Brings, Good, Syncing, Syncs, Writing
      <3> QED
        BY <1>5, <1>6, <1>10, <2>0, <2>1, <3>1, <3>2, <3>3 DEF Follows, Known, Convert
    <2>2. CASE w = u /\ Syncs(q) /\ q.alone
      <3>1. PICK s \in Subs : s = q.s
        BY <1>1, <2>2 DEF LocalsOK, Syncs, Writing
      <3>2. /\ stripe[s] # None /\ stripe[s].owner = u
            /\ q.status = Convert(stripe[s].state) \/ Coming(s)
        BY <1>1, <1>3, <2>2, <3>1 DEF Good, Fresh, Syncing
      <3>3. Coming(s)' => OnItsWay(s)'
        BY DEF Coming, OnItsWay, Asks, Brings
      <3>4. row.status = q.status /\ row.sub = s /\ row # None
        BY <1>4, <2>2, <3>1
      <3> QED
        BY <1>5, <1>6, <1>9, <2>2, <3>2, <3>3, <3>4 DEF Follows, Known, Convert
    <2>3. CASE w = u /\ ~(Syncs(q) /\ q.alone)
      <3>1. /\ u \in settled /\ user[u].status = row.status /\ user[u].sub = row.sub
            /\ ~Syncs(q)
        BY <1>5, <2>3
      <3>2. Follows(u)
        BY <3>1 DEF Inv, Settled
      <3>3. PICK s \in Subs : s = user[u].sub
        BY <1>4, <3>2, RowFields DEF Follows
      <3>4. ~Brings(q, s)
        BY <3>1 DEF Brings, Syncs
      <3> QED
        BY <1>5, <1>6, <1>10, <2>3, <3>1, <3>2, <3>3, <3>4 DEF Follows, Known, Convert
    <2> QED
      BY <2>1, <2>2, <2>3
  <1>15. Granted'
    <2> SUFFICES ASSUME ~env.datastore, NEW w \in Users
                 PROVE  audit[w] + Cardinality(ToLog(w)')
                          <= IF user'[w] # None THEN user'[w].free ELSE 0
      BY <1>5 DEF Granted, Known
    <2>1. PICK m : m = IF Known(w) THEN user[w].free ELSE 0
      OBVIOUS
    <2>2. audit[w] + Cardinality(ToLog(w)) <= m /\ m \in Nat /\ audit[w] \in Nat
      BY <2>1, UserType, RowFields DEF Inv, Granted, TypeOK
    <2>3. IsFiniteSet(ToLog(w)) /\ Cardinality(ToLog(w)) \in Nat
      BY FS_Subset, FS_CardinalityType DEF ToLog
    <2>4. r \notin ToLog(w)
      BY <1>1 DEF ToLog, Writing
    <2>5. CASE w # u
      <3>1. ToLog(w)' = ToLog(w)
        BY <1>1, <1>2, <1>3, <1>6, <2>4, <2>5 DEF ToLog
      <3> QED
        BY <1>6, <2>1, <2>2, <2>5, <3>1 DEF Known
    <2>6. CASE w = u /\ q.kind = "grant"
      <3>1. n.pc = "log" /\ n.kind = "grant" /\ n.u = u
        <4>1. n = [q EXCEPT !.pc = "log"]
          BY <1>2, <2>6 DEF AfterWrite
        <4>2. n.pc = "log"
          BY <4>1 DEF Job
        <4> QED
          BY <1>2, <1>3, <2>6, <4>2
      <3>2. ToLog(w)' = ToLog(w) \cup {r}
        BY <1>6, <2>4, <2>6, <3>1 DEF ToLog
      <3>3. Cardinality(ToLog(w)') = Cardinality(ToLog(w)) + 1
        BY <2>3, <2>4, <3>2, FS_AddElement
      <3>4. row.free = user[u].free + 1 /\ user[u].free = m /\ row # None
        BY <1>4, <2>1, <2>6
      <3> QED
        BY <1>6, <2>2, <2>3, <2>6, <3>3, <3>4
    <2>7. CASE w = u /\ q.kind # "grant"
      <3>1. ToLog(w)' = ToLog(w)
        BY <1>1, <1>2, <1>3, <1>6, <2>4, <2>7 DEF ToLog
      <3>2. row.free = m /\ row # None
        BY <1>4, <2>1, <2>7
      <3> QED
        BY <1>6, <2>2, <2>7, <3>1, <3>2
    <2> QED
      BY <2>5, <2>6, <2>7
  <1> QED
    BY <1>7, <1>11, <1>12, <1>13, <1>14, <1>15 DEF Inv

\* SQLite's UPDATE, Datastore's Put and the transaction.
LEMMA ExecInv ==
  ASSUME Inv, NEW r \in Procs, Exec(r)
  PROVE  Inv'
PROOF
  <1>1. PICK q \in Job : q = job[r] /\ LocalsOK(q) /\ Good(q) /\ Writing(q) /\ q.pc = "write"
    BY DEF Inv, TypeOK, Jobs, Exec, Writing
  <1>2. q.u \in Users /\ Known(q.u) /\ user[q.u] \in Row
    BY <1>1, UserType DEF LocalsOK, Good, Inv
  <1>3. PICK row \in Row : row = Change(q, user[q.u])
    BY <1>1, <1>2, Changed
  <1>4. Save(r, row)
    BY <1>1, <1>3 DEF Exec
  <1>5. row.status = "active" => Paid(q.u)
    <2>1. CASE q.kind \in {"webhook", "fix", "setid"}
      BY <1>1, <1>2, <1>3, <2>1, Changed DEF Good
    <2>2. CASE q.kind \notin {"webhook", "fix", "setid"}
      BY <1>1, <1>2, <1>3, <2>2, Changed DEF Inv, ActiveWasPaid, Bills, Paid
    <2> QED
      BY <2>1, <2>2
  <1>6. Syncs(q) => row.status = q.status /\ row.sub = q.s
    BY <1>1, <1>2, <1>3, Changed DEF Syncs
  <1>7. row.free = IF q.kind = "grant" THEN user[q.u].free + 1 ELSE user[q.u].free
    BY <1>1, <1>2, <1>3, Changed
  <1> QED
    BY <1>1, <1>4, <1>5, <1>6, <1>7, SaveInv

\* Datastore's Put of a whole row, with or without the transaction around it.
LEMMA PutInv ==
  ASSUME Inv, NEW r \in Procs,
         Put(r) \/ (Commit(r) /\ user[job[r].u] = job[r].copy)
  PROVE  Inv'
PROOF
  <1>1. PICK q \in Job : q = job[r] /\ LocalsOK(q) /\ Good(q) /\ Writing(q) /\ q.pc = "put"
    BY DEF Inv, TypeOK, Jobs, Put, Commit, Writing
  <1>2. q.copy \in Row
    BY <1>1 DEF LocalsOK
  <1>3. PICK row \in Row : row = Change(q, q.copy)
    BY <1>1, <1>2, Changed
  <1>4. Save(r, row)
    BY <1>1, <1>3 DEF Put, Commit
  <1>5. row.status = "active" => Paid(q.u)
    <2>1. CASE q.kind \in {"webhook", "fix", "setid"}
      BY <1>1, <1>2, <1>3, <2>1, Changed DEF Good
    <2>2. CASE q.kind \notin {"webhook", "fix", "setid"}
      BY <1>1, <1>2, <1>3, <2>2, Changed DEF Good
    <2> QED
      BY <2>1, <2>2
  <1>6. Syncs(q) => row.status = q.status /\ row.sub = q.s
    BY <1>1, <1>2, <1>3, Changed DEF Syncs
  <1>7. env.datastore
    BY <1>1 DEF Good
  <1> QED
    BY <1>1, <1>4, <1>5, <1>6, <1>7, SaveInv

-----------------------------------------------------------------------------
(* Sign-up and Stripe.                                                       *)

\* A sign-up: no job, bill or grant was about this user before.
LEMMA CreateUserInv ==
  ASSUME Inv, NEW u \in Users, CreateUser(u)
  PROVE  Inv'
PROOF
  <1>1. /\ ~Known(u) /\ user' = [user EXCEPT ![u] = NewRow]
        /\ UNCHANGED <<env, tokenVars, stripe, pending, job, audit, left, paid, settled>>
    BY DEF CreateUser
  <1>2. NewRow \in Row /\ NewRow.status = "trial" /\ NewRow.free = 0 /\ NewRow # None
    <2>1. NewRow \in Row /\ NewRow.status = "trial" /\ NewRow.free = 0
      BY DEF NewRow, Row, Status
    <2> QED
      BY <2>1
  <1>3. /\ user' \in [Users -> Row \cup {None}] /\ user'[u] = NewRow
        /\ \A w \in Users : w # u => user'[w] = user[w]
    BY <1>1, <1>2 DEF Inv, TypeOK
  <1>4. TypeOK'
    BY <1>1, <1>3 DEF tokenVars, Inv, TypeOK, TokenTypeOK
  <1>5. /\ \A w \in Users : Known(w) => Known(w)'
        /\ \A w : Paid(w) => Paid(w)'
        /\ \A s : Coming(s) => Coming(s)'
        /\ \A s : OnItsWay(s) => OnItsWay(s)'
    BY <1>1, <1>2, <1>3 DEF Known, Paid, Coming, OnItsWay, Asks, Brings
  <1>6. Jobs'
    <2> SUFFICES ASSUME NEW p \in Procs
                 PROVE  (Good(job[p]) /\ Fresh(job[p]))'
      BY DEF Jobs
    <2>1. PICK x \in Job : x = job[p] /\ x = job'[p] /\ LocalsOK(x) /\ Good(x) /\ Fresh(x)
      BY <1>1 DEF Inv, TypeOK, Jobs
    <2>2. x.pc \in {"checkout", "write", "put", "log"} => Known(x.u)'
      BY <1>5, <2>1 DEF Good, LocalsOK
    <2>3. Good(x)'
      BY <1>1, <1>5, <2>1, <2>2 DEF Good, Syncing, Writing, Syncs
    <2>4. Fresh(x)'
      BY <1>1, <1>5, <2>1 DEF Fresh, Syncing, Syncs, Writing, Convert
    <2> QED
      BY <2>1, <2>3, <2>4 DEF Good, Fresh, Known, Syncing, Writing, Syncs
  <1>7. Bills'
    <2>1. \A s \in Subs : stripe[s] # None => stripe[s].owner \in Users
      BY StripeType DEF Inv
    <2> QED
      BY <1>1, <1>5, <2>1 DEF Inv, Bills
  <1>8. ActiveWasPaid'
    BY <1>1, <1>2, <1>3 DEF Inv, ActiveWasPaid, Known
  <1>9. Settled'
    <2> SUFFICES ASSUME NEW w \in settled
                 PROVE  Follows(w)'
      BY <1>1 DEF Settled
    <2>1. Follows(w) /\ w \in Users /\ w # u
      BY <1>1 DEF Inv, Settled, TypeOK, Follows
    <2> QED
      BY <1>1, <1>3, <1>5, <2>1 DEF Follows, Known, Convert
  <1>10. Granted'
    <2> SUFFICES ASSUME ~env.datastore, NEW w \in Users
                 PROVE  audit[w] + Cardinality(ToLog(w))
                          <= IF user'[w] # None THEN user'[w].free ELSE 0
      BY <1>1 DEF Granted, Known, ToLog
    <2>1. audit[w] + Cardinality(ToLog(w)) <= IF Known(w) THEN user[w].free ELSE 0
      BY DEF Inv, Granted
    <2> QED
      BY <1>1, <1>2, <1>3, <2>1 DEF Known
  <1> QED
    BY <1>4, <1>6, <1>7, <1>8, <1>9, <1>10 DEF Inv

\* Stripe's state of s becomes sub, an event goes out, and the job of r may end.
LEMMA BillInv ==
  ASSUME Inv, NEW s \in Subs, NEW sub \in Sub, stripe' = [stripe EXCEPT ![s] = sub],
         stripe[s] # None => stripe[s].owner = sub.owner, Known(sub.owner),
         paid' = IF sub.state = "active" THEN paid \cup {s} ELSE paid,
         pending' = [pending EXCEPT ![s] = pending[s] + 1],
         left' \in [ops: Nat, changes: Nat, faults: Nat],
         UNCHANGED <<env, token, shell, user, audit, settled>>,
         \/ job' = job
         \/ \E r \in Procs : job[r].pc = "checkout" /\ job' = [job EXCEPT ![r] = Idle]
  PROVE  Inv'
PROOF
  <1>1. /\ stripe' \in [Subs -> Sub \cup {None}] /\ stripe'[s] = sub /\ sub # None
        /\ \A e \in Subs : e # s => stripe'[e] = stripe[e]
        /\ pending' \in [Subs -> Nat] /\ pending'[s] > 0
        /\ \A e \in Subs : e # s => pending'[e] = pending[e]
        /\ paid' \subseteq Subs /\ paid \subseteq paid'
    BY DEF Inv, TypeOK
  <1>2. /\ job' \in [Procs -> Job]
        /\ \A p \in Procs : job'[p] = job[p] \/ (job[p].pc = "checkout" /\ job'[p] = Idle)
    BY IdleOK DEF Inv, TypeOK
  <1>3. TypeOK'
    <2>1. \A p \in Procs : LocalsOK(job'[p])
      BY <1>2, IdleOK DEF Inv, TypeOK
    <2> QED
      BY <1>1, <1>2, <2>1 DEF Inv, TypeOK, TokenTypeOK
  <1>4. \A w : Paid(w) => Paid(w)'
    <2>1. \A e \in paid : e \in Subs /\ stripe[e] # None
      BY DEF Inv, TypeOK, Bills
    <2> QED
      BY <1>1, <2>1 DEF Paid
  <1>5. \A e \in Subs : e = s \/ Coming(e) => Coming(e)'
    <2>1. \A p \in Procs, e \in Subs : Asks(job[p], e) => job'[p] = job[p]
      BY <1>2 DEF Asks
    <2> QED
      BY <1>1, <2>1 DEF Coming, Asks
  <1>6. \A e \in Subs : e = s \/ OnItsWay(e) => OnItsWay(e)'
    <2>1. \A p \in Procs, e \in Subs : Brings(job[p], e) => job'[p] = job[p]
      BY <1>2 DEF Brings
    <2> QED
      BY <1>1, <2>1 DEF OnItsWay, Brings
  <1>7. Jobs'
    <2> SUFFICES ASSUME NEW p \in Procs
                 PROVE  (Good(job[p]) /\ Fresh(job[p]))'
      BY DEF Jobs
    <2>1. CASE job'[p] = Idle
      BY <2>1, IdleOK DEF Good, Fresh, Syncing, Writing
    <2>2. CASE job'[p] = job[p]
      <3>1. PICK x \in Job : x = job[p] /\ x = job'[p] /\ LocalsOK(x) /\ Good(x) /\ Fresh(x)
        BY <2>2 DEF Inv, TypeOK, Jobs
      <3>2. Syncing(x) => x.s \in Subs
        BY <3>1 DEF LocalsOK, Syncing, Syncs, Writing
      <3>3. Good(x)'
        <4>1. Syncing(x) => stripe'[x.s] # None /\ stripe'[x.s].owner = x.u
          BY <1>1, <3>1, <3>2 DEF Good
        <4> QED
          BY <1>4, <3>1, <4>1 DEF Good, Known, Syncing, Writing, Syncs
      <3>4. Fresh(x)'
        <4>1. CASE x.s = s
          BY <1>5, <4>1 DEF Fresh
        <4>2. CASE x.s # s
          BY <1>1, <1>5, <3>1, <3>2, <4>2 DEF Fresh, Syncing, Syncs, Writing, Convert
        <4> QED
          BY <4>1, <4>2
      <3> QED
        BY <3>1, <3>3, <3>4 DEF Good, Fresh, Known, Syncing, Writing, Syncs
    <2> QED
      BY <1>2, <2>1, <2>2
  <1>8. Bills'
    <2>1. ASSUME NEW e \in Subs, stripe'[e] # None
          PROVE  Known(stripe'[e].owner) /\ (stripe'[e].state = "active" => e \in paid')
      BY <1>1, <2>1 DEF Inv, Bills
    <2>2. \A e \in paid' : stripe'[e] # None
      BY <1>1 DEF Inv, Bills, TypeOK
    <2> QED
      BY <2>1, <2>2 DEF Bills, Known
  <1>9. ActiveWasPaid'
    <2> SUFFICES ASSUME NEW w \in Users, user[w] # None, user[w].status = "active"
                 PROVE  \E e \in paid' : stripe'[e].owner = w
      BY DEF ActiveWasPaid, Known
    <2>1. Paid(w)
      BY DEF Inv, ActiveWasPaid, Known, Paid, Bills
    <2>2. Paid(w)'
      BY <1>4, <2>1
    <2> QED
      BY <2>2 DEF Paid
  <1>10. Settled'
    <2> SUFFICES ASSUME NEW w \in settled
                 PROVE  Follows(w)'
      BY DEF Settled
    <2>1. Follows(w) /\ w \in Users
      BY DEF Inv, Settled, TypeOK
    <2>2. PICK e \in Subs : e = user[w].sub
      BY <2>1, UserType, RowFields DEF Inv, Follows
    <2>3. CASE e = s
      BY <1>1, <1>6, <2>1, <2>2, <2>3 DEF Follows, Known
    <2>4. CASE e # s
      BY <1>1, <1>6, <2>1, <2>2, <2>4 DEF Follows, Known, Convert
    <2> QED
      BY <2>3, <2>4
  <1>11. Granted'
    <2>1. \A w \in Users : ToLog(w)' = ToLog(w)
      BY <1>2, IdleOK DEF ToLog
    <2> QED
      BY <2>1 DEF Inv, Granted, Known
  <1> QED
    BY <1>3, <1>7, <1>8, <1>9, <1>10, <1>11 DEF Inv

\* A checkout is paid: the subscription belongs to the user who opened it.
LEMMA PayInv ==
  ASSUME Inv, NEW r \in Procs, NEW s \in Subs, NEW st \in StripeState, Pay(r, s, st)
  PROVE  Inv'
PROOF
  <1>1. /\ job[r].pc = "checkout" /\ stripe[s] = None
        /\ stripe' = [stripe EXCEPT ![s] = [owner |-> job[r].u, state |-> st]]
        /\ paid' = IF st = "active" THEN paid \cup {s} ELSE paid
        /\ pending' = [pending EXCEPT ![s] = pending[s] + 1]
        /\ job' = [job EXCEPT ![r] = Idle]
        /\ UNCHANGED <<env, token, shell, user, audit, left, settled>>
    BY DEF Pay, Backlog, Set, tokenVars
  <1>2. job[r].u \in Users /\ Known(job[r].u)
    BY <1>1 DEF Inv, TypeOK, Jobs, LocalsOK, Good
  <1> DEFINE sub == [owner |-> job[r].u, state |-> st]
  <1>3. sub \in Sub /\ sub.owner = job[r].u /\ sub.state = st
    BY <1>2 DEF Sub
  <1> HIDE DEF sub
  <1>4. left' \in [ops: Nat, changes: Nat, faults: Nat]
    BY <1>1 DEF Inv, TypeOK
  <1>5. stripe' = [stripe EXCEPT ![s] = sub]
    BY <1>1 DEF sub
  <1> QED
    BY <1>1, <1>2, <1>3, <1>4, <1>5, BillInv

\* Stripe changes a state: an event goes out, so nobody is left behind.
LEMMA StripeChangeInv ==
  ASSUME Inv, NEW s \in Subs, NEW st \in StripeState, StripeChange(s, st)
  PROVE  Inv'
PROOF
  <1>1. /\ stripe[s] # None
        /\ stripe' = [stripe EXCEPT ![s] = [stripe[s] EXCEPT !.state = st]]
        /\ paid' = IF st = "active" THEN paid \cup {s} ELSE paid
        /\ pending' = [pending EXCEPT ![s] = pending[s] + 1]
        /\ UNCHANGED <<env, token, shell, user, job, audit, settled>>
    BY DEF StripeChange, Backlog, tokenVars
  <1>2. stripe[s] \in Sub /\ Known(stripe[s].owner)
    BY <1>1, StripeType DEF Inv, Bills
  <1> DEFINE sub == [stripe[s] EXCEPT !.state = st]
  <1>3. sub \in Sub /\ sub.owner = stripe[s].owner /\ sub.state = st
    BY <1>2 DEF Sub
  <1> HIDE DEF sub
  <1>4. left' \in [ops: Nat, changes: Nat, faults: Nat]
    BY UseType DEF StripeChange, Inv
  <1>5. stripe' = [stripe EXCEPT ![s] = sub]
    BY <1>1 DEF sub
  <1> QED
    BY <1>1, <1>2, <1>3, <1>4, <1>5, BillInv

\* A sync asks Stripe: the other syncs of the same user are no longer alone.
LEMMA ReadStripeInv ==
  ASSUME Inv, NEW r \in Procs, ReadStripe(r)
  PROVE  Inv'
PROOF
  <1>1. PICK q \in Job : q = job[r] /\ q.pc = "stripe" /\ LocalsOK(q)
    BY ZenonT(60) DEF ReadStripe, Inv, TypeOK
  <1>2. PICK s \in Subs : s = q.s /\ stripe[s] # None
    BY <1>1 DEF ReadStripe, LocalsOK
  <1>3. PICK u \in Users : u = stripe[s].owner
    BY <1>2, StripeType DEF Inv
  <1> DEFINE st == Convert(stripe[s].state)
             rivals == {p \in Procs \ {r} : /\ Syncs(job[p]) /\ job[p].u = u
                                            /\ job[p].pc \in {"write", "put"}}
             b == (rivals = {})
             n == [q EXCEPT !.pc = "write", !.u = u, !.status = st, !.alone = b]
  <1>4. /\ job' = [p \in Procs |-> CASE p = r -> n
                                     [] p \in rivals -> [job[p] EXCEPT !.alone = FALSE]
                                     [] OTHER -> job[p]]
        /\ UNCHANGED <<env, tokenVars, user, stripe, pending, audit, left, paid, settled>>
    BY <1>1, <1>2, <1>3, ZenonT(60) DEF ReadStripe
  <1>5. st \in Status /\ (st = "active" => s \in paid) /\ Known(u)
    BY <1>2, <1>3, StripeType, ConvertType DEF Inv, Bills
  <1>6. b \in BOOLEAN
    OBVIOUS
  <1> HIDE DEF b
  <1>n. /\ n \in Job /\ n.pc = "write" /\ n.kind = q.kind /\ n.u = u /\ n.s = s /\ n.status = st
        /\ n.copy = q.copy
    BY <1>1, <1>2, <1>5, <1>6, ZenonT(60) DEF Job
  <1> HIDE DEF n, rivals
  <1>7. PICK m \in Job : /\ m = n /\ m.pc = "write" /\ m.kind = q.kind /\ m.u = u /\ m.s = s
                         /\ m.status = st /\ m.copy = q.copy
    BY <1>n
  <1>8. /\ job'[r] = m /\ r \notin rivals
        /\ \A p \in Procs : p \in rivals => job'[p] = [job[p] EXCEPT !.alone = FALSE]
        /\ \A p \in Procs : p # r /\ p \notin rivals => job'[p] = job[p]
    BY <1>4, <1>7 DEF rivals
  <1>9. q.kind \in {"webhook", "fix"}
    BY <1>1 DEF LocalsOK
  \* Whatever happens to another job, only alone may have changed.
  <1>10. ASSUME NEW p \in Procs, p # r
         PROVE  /\ job'[p] \in Job /\ job'[p].pc = job[p].pc /\ job'[p].kind = job[p].kind
                /\ job'[p].u = job[p].u /\ job'[p].s = job[p].s
                /\ job'[p].status = job[p].status /\ job'[p].copy = job[p].copy
                /\ job'[p].alone => job[p].alone /\ p \notin rivals
    <2>1. job[p] \in Job
      BY DEF Inv, TypeOK
    <2>2. CASE p \in rivals
      <3>1. PICK x \in Job : x = job[p]
        BY <2>1
      <3>2. job'[p] = [x EXCEPT !.alone = FALSE]
        BY <1>8, <2>2, <3>1
      <3>3. /\ job'[p] \in Job /\ job'[p].pc = x.pc /\ job'[p].kind = x.kind /\ job'[p].u = x.u
            /\ job'[p].s = x.s /\ job'[p].status = x.status /\ job'[p].copy = x.copy
            /\ job'[p].alone = FALSE
        BY <3>2 DEF Job
      <3> QED
        BY <3>1, <3>3
    <2>3. CASE p \notin rivals
      BY <1>8, <1>10, <2>1, <2>3
    <2> QED
      BY <2>2, <2>3
  <1>11. LocalsOK(m)
    BY <1>2, <1>3, <1>7, <1>9 DEF LocalsOK, Kinds
  <1>12. TypeOK'
    <2>1. \A p \in Procs : LocalsOK(job'[p])
      <3> SUFFICES ASSUME NEW p \in Procs, p # r
                   PROVE  LocalsOK(job'[p])
        BY <1>8, <1>11
      <3>1. LocalsOK(job[p])
        BY DEF Inv, TypeOK
      <3> QED
        BY <1>10, <3>1 DEF LocalsOK
    <2>2. job' \in [Procs -> Job]
      BY <1>4, <1>7, <1>8, <1>10
    <2> QED
      BY <1>4, <2>1, <2>2 DEF tokenVars, Inv, TypeOK, TokenTypeOK
  <1>13. \A e \in Subs : e # s /\ Coming(e) => Coming(e)'
    <2>1. \A e \in Subs : e # s => ~Asks(job[r], e)
      BY <1>1, <1>2 DEF Asks
    <2> QED
      BY <1>4, <1>10, <2>1 DEF Coming, Asks
  <1>14. \A e \in Subs : OnItsWay(e) => OnItsWay(e)'
    <2>1. \A e \in Subs : Brings(job[r], e) => Brings(m, e)
      BY <1>1, <1>2, <1>7 DEF Brings
    <2>2. \A p \in Procs, e \in Subs : Brings(job[p], e) => Brings(job'[p], e)
      BY <1>8, <1>10, <2>1 DEF Brings
    <2> QED
      BY <1>4, <2>2 DEF OnItsWay, Brings
  <1>15. Jobs'
    <2> SUFFICES ASSUME NEW p \in Procs
                 PROVE  (Good(job[p]) /\ Fresh(job[p]))'
      BY DEF Jobs
    <2>1. CASE p = r
      <3>1. Good(m)'
        <4>1. st = "active" => Paid(u)
          BY <1>2, <1>3, <1>5 DEF Paid
        <4>2. st = "active" => Paid(u)'
          BY <1>4, <4>1 DEF Paid
        <4> HIDE DEF st
        <4> QED
          BY <1>2, <1>3, <1>4, <1>5, <1>7, <4>2 DEF Good, Known, Syncing, Writing
      <3>2. Fresh(m)'
        BY <1>2, <1>4, <1>7 DEF Fresh, Convert
      <3> QED
        BY <2>1, <1>8, <3>1, <3>2 DEF Good, Fresh, Known, Syncing, Writing, Syncs
    <2>2. CASE p # r
      <3>1. PICK x \in Job : x = job[p] /\ LocalsOK(x) /\ Good(x) /\ Fresh(x)
        BY DEF Inv, TypeOK, Jobs
      <3>2. PICK y \in Job : /\ y = job'[p] /\ y.pc = x.pc /\ y.kind = x.kind /\ y.u = x.u
                             /\ y.s = x.s /\ y.status = x.status /\ y.copy = x.copy
                             /\ y.alone => x.alone /\ p \notin rivals
        BY <1>10, <2>2, <3>1
      <3>3. Good(y)'
        BY <1>4, <3>1, <3>2 DEF Good, Known, Paid, Syncing, Writing, Syncs
      <3>4. Fresh(y)'
        <4> SUFFICES ASSUME Syncing(y), y.alone
                     PROVE  y.status = Convert(stripe[y.s].state) \/ Coming(y.s)'
          BY <1>4 DEF Fresh, Syncing, Syncs, Writing, Convert
        <4>1. Syncing(x) /\ x.alone /\ p \notin rivals /\ x.s \in Subs
          BY <3>1, <3>2 DEF Syncing, Syncs, Writing, LocalsOK
        <4>2. x.u # u
          BY <2>2, <3>1, <4>1 DEF rivals, Syncing, Writing
        <4>3. x.s # s
          BY <1>3, <3>1, <4>1, <4>2 DEF Good
        <4> QED
          BY <1>13, <3>1, <3>2, <4>1, <4>3 DEF Fresh
      <3> QED
        BY <3>2, <3>3, <3>4 DEF Good, Fresh, Known, Syncing, Writing, Syncs
    <2> QED
      BY <2>1, <2>2
  <1>16. Bills' /\ ActiveWasPaid'
    BY <1>4 DEF Inv, Bills, ActiveWasPaid, Known
  <1>17. Settled'
    <2> SUFFICES ASSUME NEW w \in settled
                 PROVE  Follows(w)'
      BY <1>4 DEF Settled
    <2>1. Follows(w) /\ w \in Users
      BY DEF Inv, Settled, TypeOK
    <2>2. user[w].sub \in Subs
      BY <2>1, UserType, RowFields DEF Inv, Follows
    <2> QED
      BY <1>4, <1>14, <2>1, <2>2 DEF Follows, Known, Convert
  <1>18. Granted'
    <2>1. \A w \in Users : ToLog(w)' = ToLog(w)
      BY <1>1, <1>7, <1>8, <1>10 DEF ToLog
    <2> QED
      BY <1>4, <2>1 DEF Inv, Granted, Known
  <1> QED
    BY <1>12, <1>15, <1>16, <1>17, <1>18 DEF Inv

-----------------------------------------------------------------------------
(* The invariant holds.                                                      *)

\* The two steps that end a job without more.
LEMMA DoneInv ==
  ASSUME Inv, NEW r \in Procs, Leave(r) \/ Acknowledge(r)
  PROVE  Inv'
  BY EndInv DEF Leave, Acknowledge, Set, tokenVars

\* A step of the token commands.
LEMMA TokenInv ==
  ASSUME Inv, TokenTypeOK', UNCHANGED env, UNCHANGED accountVars
  PROVE  Inv'
PROOF
  <1> USE DEF accountVars
  <1>1. TypeOK'
    BY DEF Inv, TypeOK
  <1>2. Jobs'
    BY DEF Inv, Jobs, Good, Fresh, Known, Paid, Syncing, Syncs, Writing, Convert, Coming, Asks
  <1>3. Bills' /\ ActiveWasPaid'
    BY DEF Inv, Bills, ActiveWasPaid, Known
  <1>4. Settled'
    BY DEF Inv, Settled, Follows, Known, Convert, OnItsWay, Brings
  <1>5. Granted'
    BY DEF Inv, Granted, Known, ToLog
  <1> QED
    BY <1>1, <1>2, <1>3, <1>4, <1>5 DEF Inv

\* The invariant holds initially.
LEMMA InitInv ==
  ASSUME Init
  PROVE  Inv
PROOF
  <1>1. \A r \in Procs : job[r] = Idle
    BY DEF Init
  <1>2. TypeOK
    <2>1. env \in Env /\ left \in [ops: Nat, changes: Nat, faults: Nat]
      BY DEF Init, Env
    <2>2. TokenTypeOK
      BY DEF Init, TokenInit, TokenTypeOK, Closed, Shell
    <2>3. job \in [Procs -> Job] /\ \A r \in Procs : LocalsOK(job[r])
      BY <1>1, IdleOK DEF Init
    <2> QED
      BY <2>1, <2>2, <2>3 DEF Init, TypeOK
  <1>3. Jobs
    BY <1>1, IdleOK DEF Jobs
  <1>4. Bills /\ ActiveWasPaid /\ Settled
    BY DEF Init, Bills, ActiveWasPaid, Settled, Known
  <1>5. Granted
    <2>1. \A u \in Users : ToLog(u) = {}
      BY <1>1, IdleOK DEF ToLog
    <2>2. \A u \in Users : audit[u] = 0 /\ user[u] = None /\ Cardinality(ToLog(u)) = 0
      BY <2>1, FS_EmptySet DEF Init
    <2> QED
      BY <2>2 DEF Granted, Known
  <1> QED
    BY <1>2, <1>3, <1>4, <1>5 DEF Inv

\* Every step keeps the invariant.
LEMMA NextInv ==
  ASSUME Inv, [Next]_vars
  PROVE  Inv'
PROOF
  <1>1. ASSUME NEW u \in Users, CreateUser(u) PROVE Inv'
    BY <1>1, CreateUserInv
  <1>2. ASSUME NEW s \in Subs, NEW st \in StripeState, StripeChange(s, st) PROVE Inv'
    BY <1>2, StripeChangeInv
  <1>3. ASSUME NEW r \in Procs, Ask(r) \/ Startup(r) \/ Fail(r) PROVE Inv'
    BY <1>3, AskInv, StartupInv, FailInv
  <1>4. ASSUME NEW r \in Procs, Step(r) PROVE Inv'
    <2>1. CASE Lookup(r) \/ ReadStripe(r) \/ NoSuchSubscription(r) \/ Exec(r) \/ Get(r)
      BY <2>1, LookupInv, ReadStripeInv, NoSuchInv, ExecInv, GetInv
    <2>2. CASE Put(r)
      BY <2>2, PutInv
    <2>3. CASE Commit(r)
      BY <2>3, PutInv, RetryInv
    <2>4. CASE LogSuccess(r) \/ Acknowledge(r) \/ Leave(r)
      BY <2>4, LogInv, DoneInv
    <2> QED
      BY <1>4, <2>1, <2>2, <2>3, <2>4 DEF Step
  <1>5. ASSUME NEW r \in Procs, NEW s \in Subs, Deliver(r, s) PROVE Inv'
    BY <1>5, DeliverInv
  <1>6. ASSUME NEW r \in Procs, NEW s \in Subs, NEW st \in StripeState, Pay(r, s, st) PROVE Inv'
    BY <1>6, PayInv
  <1>7. ASSUME NEW r \in Procs, TokenStep(r, Admins # {}), UNCHANGED accountVars PROVE Inv'
    <2>1. PICK b \in BOOLEAN : b = (Admins # {})
      OBVIOUS
    <2>2. TokenTypeOK' /\ UNCHANGED env
      BY <1>7, <2>1, TokenType DEF Inv, TypeOK
    <2> QED
      BY <1>7, <2>2, TokenInv
  <1>8. CASE UNCHANGED vars
    BY <1>8, TokenInv DEF vars, accountVars, Inv, TypeOK, TokenTypeOK
  <1> QED
    BY <1>1, <1>2, <1>3, <1>4, <1>5, <1>6, <1>7, <1>8 DEF Next

\* The inductive invariant holds in every reachable state: jobs, bills, rows, events on
\* their way and grants still to be logged stay in the relations above.
THEOREM Invariance == Spec => []Inv
  BY InitInv, NextInv, PTL DEF Spec

-----------------------------------------------------------------------------
(* What follows from it.                                                     *)

\* Rows, subscriptions, jobs, tokens and histories keep their types, and a job has at
\* each of its steps the user, the subscription and the copy that the step uses.
THEOREM TypeCorrect == Spec => []TypeOK
  BY Invariance, PTL DEF Inv

\* Nobody is "active" without a subscription of his own that was active at Stripe.
THEOREM ActiveWasPaidHolds == Spec => []ActiveWasPaid
  BY Invariance, PTL DEF Inv

\* The invariant implies SettledMirrors: when all is quiet no event is on its way.
LEMMA InvSettled ==
  ASSUME Inv
  PROVE  SettledMirrors
PROOF
  <1> SUFFICES ASSUME Quiet, NEW u \in settled
               PROVE  Mirrors(u)
    BY DEF SettledMirrors
  <1>1. Follows(u) /\ u \in Users
    BY DEF Inv, Settled, TypeOK
  <1>2. user[u].sub \in Subs
    BY <1>1, UserType, RowFields DEF Inv, Follows
  <1>3. ~OnItsWay(user[u].sub)
    BY <1>2 DEF Quiet, OnItsWay, Brings, Syncs
  <1> QED
    BY <1>1, <1>3 DEF Follows, Mirrors

\* When no event is undelivered and no sync under way, the row of a settled user
\* mirrors Stripe.
THEOREM SettledMirrorsHolds == Spec => []SettledMirrors
  BY Invariance, InvSettled, PTL

\* The invariant implies GrantsKept: what is in the log is part of what is counted.
LEMMA InvGrants ==
  ASSUME Inv
  PROVE  GrantsKept
PROOF
  <1> SUFFICES ASSUME ~env.datastore, NEW u \in Users, audit[u] > 0
               PROVE  Known(u) /\ user[u].free >= audit[u]
    BY DEF GrantsKept
  <1>1. Cardinality(ToLog(u)) \in Nat
    BY FS_Subset, FS_CardinalityType DEF ToLog
  <1>2. audit[u] + Cardinality(ToLog(u)) <= IF Known(u) THEN user[u].free ELSE 0
    BY DEF Inv, Granted
  <1>3. audit[u] \in Nat /\ (Known(u) => user[u].free \in Nat)
    BY UserType, RowFields DEF Inv, TypeOK
  <1>4. CASE Known(u)
    BY <1>1, <1>2, <1>3, <1>4
  <1>5. CASE ~Known(u)
    BY <1>1, <1>2, <1>3, <1>5
  <1> QED
    BY <1>4, <1>5

\* On SQLite every grant in the audit log is in the user's row.
THEOREM GrantsKeptHolds == Spec => []GrantsKept
  BY Invariance, InvGrants, PTL

\* Any row of the right type makes the two decisions agree.
LEMMA InvInfo ==
  ASSUME TypeOK
  PROVE  InfoAgrees
PROOF
  <1> SUFFICES ASSUME NEW u \in Users, NEW feeds \in 0..(Limit + 1),
                      NEW now \in {"before", "at", "after"}, Known(u)
               PROVE  /\ CanAddFeeds(user[u], feeds, now) => CanUserAddFeed(user[u], feeds, now)
                      /\ user[u].status \in {"trial", "active"} /\ now # "at"
                           => (CanUserAddFeed(user[u], feeds, now) => CanAddFeeds(user[u], feeds, now))
    BY DEF InfoAgrees
  <1>1. PICK w \in Row : w = user[u]
    BY UserType
  <1>2. w.status \in Status /\ w.admin \in BOOLEAN /\ w.free \in Nat
    BY RowFields
  <1> QED
    BY <1>1, <1>2 DEF CanAddFeeds, CanUserAddFeed, IsUserSubscriptionActive, Status

\* The subscription page and AddFeed decide alike.
THEOREM InfoAgreesHolds == Spec => []InfoAgrees
  BY TypeCorrect, InvInfo, PTL

\* On SQLite no step touches a revoked token.
LEMMA RevokedStep ==
  ASSUME TypeOK, Next, ~env.datastore, NEW t \in Tokens, token[t] = "revoked"
  PROVE  token'[t] = "revoked"
PROOF
  <1>1. ASSUME NEW c \in Procs, NEW b, TokenStep(c, b)
        PROVE  token'[t] = "revoked"
    <2> USE DEF TypeOK, TokenTypeOK
    <2>1. ASSUME NEW x \in Tokens, Launch(c, x) \/ GenerateAdminToken(c, x) \/ RevokeAdminToken(c, x)
          PROVE  token'[t] = "revoked"
      BY <2>1 DEF Launch, GenerateAdminToken, RevokeAdminToken
    <2>2. CASE PutRevoked(c)
      BY <2>2 DEF PutRevoked
    <2>3. CASE Touch(c) \/ CreateAdminToken(c) \/ CheckBootstrap(c, b) \/ ValidateAdminToken(c) \/ Quit(c)
      BY <2>3 DEF Touch, CreateAdminToken, CheckBootstrap, ValidateAdminToken, Quit
    <2> QED
      BY <1>1, <2>1, <2>2, <2>3 DEF TokenStep
  <1>2. (\E u \in Users : CreateUser(u)) \/ (\E s \in Subs, st \in StripeState : StripeChange(s, st))
          => token' = token
    BY SMTT(30) DEF CreateUser, StripeChange, tokenVars
  <1>3. ASSUME NEW r \in Procs, Ask(r)
        PROVE  token' = token
    BY <1>3, ZenonT(60) DEF Ask, CreateCheckoutSession, UpdateMaxArticles, SetAdmin, SetAdminStatus, GrantMonths,
                GrantFree, FixSubscription, SetSubscriptionID, Begin, Command, tokenVars
  <1>4. ASSUME NEW r \in Procs, Startup(r) \/ Fail(r) \/ Step(r)
        PROVE  token' = token
    BY <1>4, Zenon DEF Startup, Fail, Step, Lookup, ReadStripe, NoSuchSubscription, Exec, Get, Put, Commit,
                LogSuccess, Acknowledge, Leave, Save, tokenVars
  <1>5. ASSUME NEW r \in Procs, NEW s \in Subs,
               Deliver(r, s) \/ \E st \in StripeState : Pay(r, s, st)
        PROVE  token' = token
    BY <1>5 DEF Deliver, Pay, tokenVars
  <1> QED
    BY <1>1, <1>2, <1>3, <1>4, <1>5 DEF Next

\* On SQLite a revoked token never works again, also when it is being used while it is
\* revoked.
THEOREM RevokedStaysHolds == Spec => RevokedStays
PROOF
  <1>1. ASSUME TypeOK, [Next]_vars
        PROVE  [~env.datastore => \A t \in Tokens : token[t] = "revoked" => token'[t] = "revoked"]_vars
    BY <1>1, RevokedStep
  <1> QED
    BY <1>1, TypeCorrect, PTL DEF Spec, RevokedStays
=============================================================================
