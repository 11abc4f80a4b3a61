------------------------------- MODULE SignIn -------------------------------
(***************************************************************************)
(* What signing in promises, without instances, states in memory, cookies  *)
(* or callbacks: a login belongs to the browser that began it and is       *)
(* answered by one account at Google; it makes at most one session, of     *)
(* that account; and only that browser gets the session, or its app, for a *)
(* code that works once and for a short time.                              *)
(***************************************************************************)
EXTENDS Naturals

CONSTANTS Browsers, Logins, Accounts, Sessions, CodeTTL, None

VARIABLES
    now,
    login,   \* who began a login, and the account that answered it
    made,    \* the login and the account that a session is of
    code,    \* when the code of a session was made, and how often it was exchanged
    holds    \* the sessions that a browser and its app have

vars == <<now, login, made, code, holds>>

Init ==
    /\ now = 0
    /\ login = [l \in Logins |-> None]
    /\ made = [s \in Sessions |-> None]
    /\ code = [s \in Sessions |-> None]
    /\ holds = [b \in Browsers |-> [session |-> None, token |-> None]]

Begin(l, b) ==
    /\ login[l] = None
    /\ login' = [login EXCEPT ![l] = [browser |-> b, account |-> None]]
    /\ UNCHANGED <<now, made, code, holds>>

Consent(l, g) ==
    /\ login[l] # None /\ login[l].account = None
    /\ login' = [login EXCEPT ![l].account = g]
    /\ UNCHANGED <<now, made, code, holds>>

Make(s, l) ==
    /\ login[l] # None /\ login[l].account # None
    /\ made[s] = None
    /\ \A t \in Sessions : made[t] # None => made[t].login # l
    /\ made' = [made EXCEPT ![s] = [login |-> l, account |-> login[l].account]]
    /\ UNCHANGED <<now, login, code, holds>>

Owner(s) == login[made[s].login].browser

\* The browser gets the session, or its app gets a code for it.
Deliver(s) ==
    /\ made[s] # None /\ code[s] = None
    /\ holds' = [holds EXCEPT ![Owner(s)].session = s]
    /\ UNCHANGED <<now, login, made, code>>

Offer(s) ==
    /\ made[s] # None /\ code[s] = None
    /\ code' = [code EXCEPT ![s] = [at |-> now, times |-> 0]]
    /\ UNCHANGED <<now, login, made, holds>>

\* The answer may be lost; the code is used nevertheless.
Redeem(s) ==
    /\ code[s] # None /\ code[s].times = 0 /\ now <= code[s].at + CodeTTL
    /\ code' = [code EXCEPT ![s].times = 1]
    /\ holds' \in {holds, [holds EXCEPT ![Owner(s)].token = s]}
    /\ UNCHANGED <<now, login, made>>

Tick == now' = now + 1 /\ UNCHANGED <<login, made, code, holds>>

Next ==
    \/ \E l \in Logins, b \in Browsers : Begin(l, b)
    \/ \E l \in Logins, g \in Accounts : Consent(l, g)
    \/ \E s \in Sessions, l \in Logins : Make(s, l)
    \/ \E s \in Sessions : Deliver(s) \/ Offer(s) \/ Redeem(s)
    \/ Tick

Spec == Init /\ [][Next]_vars
=============================================================================
