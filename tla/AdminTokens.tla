----------------------------- MODULE AdminTokens -----------------------------
(***************************************************************************)
(* The tokens of the admin command line: create-token, revoke-token and    *)
(* the validation that every other command starts with.  A shell is one    *)
(* run of cmd/admin; the commands that change accounts go on in Accounts,   *)
(* which extends this module.                                              *)
(*                                                                         *)
(* On SQLite each call is one statement that names the column it sets.  On *)
(* Datastore it is a read of the token entity and a later Put of all of it.*)
(***************************************************************************)
EXTENDS Naturals

CONSTANTS
    Tokens,    \* bounds the tokens ever created
    Procs,     \* processes at a time: runs of the command line, requests of the server
    None

ASSUME TokensAssumption == None \notin Tokens

VARIABLES
    env,      \* the deployment; here only the backend matters
    token,    \* admin_tokens
    shell     \* what each run of the command line is doing

tokenVars == <<token, shell>>

\* "valid": the token was accepted and the command itself starts.
Shell == [pc: {"idle", "validate", "touch", "valid", "check", "store", "put"},
          tok: Tokens \cup {None}]

Closed == [pc |-> "idle", tok |-> None]

TokenTypeOK ==
    /\ token \in [Tokens -> {"none", "active", "revoked"}]
    /\ shell \in [Procs -> Shell]

TokenInit ==
    /\ token = [t \in Tokens |-> "none"]
    /\ shell = [c \in Procs |-> Closed]

Exit(c)    == shell' = [shell EXCEPT ![c] = Closed]
Go(c, pc)  == shell' = [shell EXCEPT ![c].pc = pc]

\* ADMIN_TOKEN holds t; every command but create-token validates it first.
Launch(c, t) ==
    /\ shell[c].pc = "idle"
    /\ token[t] # "none"
    /\ shell' = [shell EXCEPT ![c] = [pc |-> "validate", tok |-> t]]
    /\ UNCHANGED <<env, token>>

\* ValidateAdminToken: the token is looked up among the active ones; when the
\* lookup fails or finds nothing the command ends.
ValidateAdminToken(c) ==
    /\ shell[c].pc = "validate"
    /\ \/ Exit(c)
       \/ token[shell[c].tok] = "active" /\ Go(c, "touch")
    /\ UNCHANGED <<env, token>>

\* Mutant of Touch: the UPDATE of last_used_at writes the whole row, as on Datastore.
TouchAll(c) ==
    /\ shell[c].pc = "touch"
    /\ token' = [token EXCEPT ![shell[c].tok] = "active"]
    /\ Go(c, "valid")
    /\ UNCHANGED env

\* last_used_at is brought up to date.  Datastore puts the entity back as it was
\* read, is_active included; a failure is a warning and the token stays valid.
Touch(c) ==
    /\ shell[c].pc = "touch"
    /\ \/ env.datastore /\ token' = [token EXCEPT ![shell[c].tok] = "active"]
       \/ UNCHANGED token
    /\ Go(c, "valid")
    /\ UNCHANGED env

\* create-token validates nothing: it warns and asks when there is an active token
\* (HasAdminTokens) and otherwise wants an admin among the users.
CreateAdminToken(c) ==
    /\ shell[c].pc = "idle"
    /\ shell' = [shell EXCEPT ![c] = [pc |-> "check", tok |-> None]]
    /\ UNCHANGED <<env, token>>

HasAdminTokens == \E t \in Tokens : token[t] = "active"

CheckBootstrap(c, hasAdminUsers) ==
    /\ shell[c].pc = "check"
    /\ \/ Exit(c)                       \* a query fails, or the answer is no
       \/ HasAdminTokens /\ Go(c, "store")
       \/ ~HasAdminTokens /\ hasAdminUsers /\ Go(c, "store")
    /\ UNCHANGED <<env, token>>

GenerateAdminToken(c, t) ==
    /\ shell[c].pc = "store"
    /\ token[t] = "none"
    /\ \/ token' = [token EXCEPT ![t] = "active"]
       \/ UNCHANGED token
    /\ Exit(c)
    /\ UNCHANGED env

\* revoke-token t, with the shell's own token or another one.
RevokeAdminToken(c, t) ==
    /\ shell[c].pc = "valid"
    /\ token[t] = "active"
    /\ IF env.datastore
         THEN shell' = [shell EXCEPT ![c] = [pc |-> "put", tok |-> t]] /\ UNCHANGED token
         ELSE token' = [token EXCEPT ![t] = "revoked"] /\ Exit(c)
    /\ UNCHANGED env

\* The Put of Datastore's RevokeAdminToken.
PutRevoked(c) ==
    /\ shell[c].pc = "put"
    /\ \/ token' = [token EXCEPT ![shell[c].tok] = "revoked"]
       \/ UNCHANGED token
    /\ Exit(c)
    /\ UNCHANGED env

\* The command ends: a read-only one is done, the token to revoke is not there, a
\* statement fails.
Quit(c) ==
    /\ shell[c].pc = "valid"
    /\ Exit(c)
    /\ UNCHANGED <<env, token>>

TokenStep(c, hasAdminUsers) ==
    \/ \E t \in Tokens : Launch(c, t) \/ GenerateAdminToken(c, t) \/ RevokeAdminToken(c, t)
    \/ CreateAdminToken(c) \/ CheckBootstrap(c, hasAdminUsers)
    \/ ValidateAdminToken(c) \/ Touch(c) \/ PutRevoked(c) \/ Quit(c)
=============================================================================
