----------------------------- MODULE AuthTokens -----------------------------
(***************************************************************************)
(* auth-service: register, loginWithEmail, loginWithOAuth, refresh and     *)
(* logout as concurrent HTTP requests over the tables users, user_profiles,*)
(* user_metrics and refresh_tokens.                                        *)
(*                                                                         *)
(* Each await that touches a table is a step.  A refresh token is its      *)
(* position in the order of creation, since a client presents only tokens  *)
(* it was given; access tokens are not stored.                             *)
(***************************************************************************)
EXTENDS Naturals, Sequences, FiniteSets

CONSTANTS Emails,
          Googles,     \* Google subject ids
          Requests,    \* concurrent requests to auth-service
          None,        \* a null e-mail or google_id, no argument
          MaxUsers,    \* bound: user rows
          MaxTokens,   \* bound: refresh tokens issued
          Faults       \* failures this instance allows

ASSUME AuthAssumption ==
    /\ None \notin Emails /\ None \notin Googles /\ (Emails \cup {None}) \cap Nat = {}
    /\ MaxUsers \in Nat /\ MaxTokens \in Nat
    /\ Faults \subseteq {"throw", "expire"}

VARIABLES
    users,      \* rows of users: e-mail, google_id, whether a password is set
    profiles,   \* user ids with a user_profiles row
    scored,     \* user ids with a user_metrics row
    issued,     \* the refresh tokens created: their user and their session
    stored,     \* those with a row in refresh_tokens
    expired,    \* those past expires_at
    pc,         \* where each request is
    arg,        \* the e-mail of a register, the token of a refresh
    userOf,     \* the user id it works for, 0 for none
    spent,      \* history: tokens whose refresh got past the delete
    loggedOut   \* history: sessions logged out with a token no refresh had replaced

tables == <<users, profiles, scored>>
tokens == <<issued, stored, expired>>
locals == <<pc, arg, userOf>>
authVars == <<tables, tokens, locals, spent, loggedOut>>

AuthSteps == {"idle", "createUser", "ensureRows", "deleteToken", "readProfile", "issue"}
UserIds == DOMAIN users
Issued == DOMAIN issued

Begin(r, step, a, u) == /\ pc[r] = "idle"
                        /\ pc' = [pc EXCEPT ![r] = step]
                        /\ arg' = [arg EXCEPT ![r] = a]
                        /\ userOf' = [userOf EXCEPT ![r] = u]

Goto(r, step) == pc' = [pc EXCEPT ![r] = step] /\ UNCHANGED <<arg, userOf>>

Finish(r) == /\ pc' = [pc EXCEPT ![r] = "idle"]
             /\ arg' = [arg EXCEPT ![r] = None]
             /\ userOf' = [userOf EXCEPT ![r] = 0]

----------------------------------------------------------------------------
\* register

\* The unique key on users.email; a null is not a value of it.
EmailTaken(e) == e # None /\ \E u \in UserIds : users[u].email = e

\* findUnique finds nobody; then the password is hashed.
Register(r, e) ==
    /\ ~EmailTaken(e)
    /\ Begin(r, "createUser", e, 0)
    /\ UNCHANGED <<tables, tokens, spent, loggedOut>>

CreateUserUnchecked(r) ==               \* mutant: no unique key on users.email
    /\ pc[r] = "createUser" /\ Len(users) < MaxUsers
    /\ users' = Append(users, [email |-> arg[r], google |-> None, password |-> TRUE])
    /\ pc' = [pc EXCEPT ![r] = "ensureRows"]
    /\ userOf' = [userOf EXCEPT ![r] = Len(users) + 1]
    /\ UNCHANGED <<arg, profiles, scored, tokens, spent, loggedOut>>

CreateUserNoId(r) ==                    \* mutant: the new row's id is not passed on
    /\ pc[r] = "createUser" /\ Len(users) < MaxUsers /\ ~EmailTaken(arg[r])
    /\ users' = Append(users, [email |-> arg[r], google |-> None, password |-> TRUE])
    /\ Goto(r, "ensureRows")
    /\ UNCHANGED <<profiles, scored, tokens, spent, loggedOut>>

\* user.create: the unique key on email rejects a second row.
CreateUser(r) ==
    /\ pc[r] = "createUser" /\ Len(users) < MaxUsers
    /\ \/ /\ ~EmailTaken(arg[r])
          /\ users' = Append(users, [email |-> arg[r], google |-> None, password |-> TRUE])
          /\ pc' = [pc EXCEPT ![r] = "ensureRows"]
          /\ userOf' = [userOf EXCEPT ![r] = Len(users) + 1]
          /\ UNCHANGED arg
       \/ /\ EmailTaken(arg[r])
          /\ Finish(r)
          /\ UNCHANGED users
    /\ UNCHANGED <<profiles, scored, tokens, spent, loggedOut>>

----------------------------------------------------------------------------
\* loginWithEmail, loginWithOAuth

LoginWithEmail(r, u) ==
    /\ users[u].password
    /\ Begin(r, "ensureRows", None, u)
    /\ UNCHANGED <<tables, tokens, spent, loggedOut>>

\* findOrCreateUser: user.upsert on google_id.  A verified subject comes with
\* an address, possibly another one than last time, or with none; the unique
\* key on email refuses an address that belongs to another row.
LoginWithOAuth(r, g, e) ==
    /\ \/ \E u \in UserIds :
             /\ users[u].google = g
             /\ EmailTaken(e) => users[u].email = e
             /\ users' = IF e = None THEN users ELSE [users EXCEPT ![u].email = e]
             /\ Begin(r, "ensureRows", None, u)
       \/ /\ \A u \in UserIds : users[u].google # g
          /\ ~EmailTaken(e) /\ Len(users) < MaxUsers
          /\ users' = Append(users, [email |-> e, google |-> g, password |-> FALSE])
          /\ Begin(r, "ensureRows", None, Len(users) + 1)
    /\ UNCHANGED <<profiles, scored, tokens, spent, loggedOut>>

EnsureProfileOnly(r) ==                 \* mutant: the metrics row is not awaited
    /\ pc[r] = "ensureRows"
    /\ profiles' = profiles \cup {userOf[r]}
    /\ Goto(r, "issue")
    /\ UNCHANGED <<users, scored, tokens, spent, loggedOut>>

\* ensureProfileAndMetrics: Promise.all of two upserts.
EnsureProfileAndMetrics(r) ==
    /\ pc[r] = "ensureRows"
    /\ profiles' = profiles \cup {userOf[r]}
    /\ scored' = scored \cup {userOf[r]}
    /\ Goto(r, "issue")
    /\ UNCHANGED <<users, tokens, spent, loggedOut>>

\* One upsert rejects; the other may have taken effect all the same.
EnsureFails(r) ==
    /\ "throw" \in Faults /\ pc[r] = "ensureRows"
    /\ profiles' \in {profiles, profiles \cup {userOf[r]}}
    /\ scored' = IF profiles' = profiles THEN scored \cup {userOf[r]} ELSE scored
    /\ Finish(r)
    /\ UNCHANGED <<users, tokens, spent, loggedOut>>

----------------------------------------------------------------------------
\* refresh, logout

\* refreshToken.findFirst where expires_at is in the future, else 401.
FindToken(r, t) ==
    /\ t \in stored \ expired
    /\ Begin(r, "deleteToken", t, issued[t].user)
    /\ UNCHANGED <<tables, tokens, spent, loggedOut>>

DeleteMany(r) ==                        \* mutant: deleteMany does not reject
    /\ pc[r] = "deleteToken"
    /\ stored' = stored \ {arg[r]}
    /\ spent' = Append(spent, arg[r])
    /\ Goto(r, "readProfile")
    /\ UNCHANGED <<tables, issued, expired, loggedOut>>

DeleteLater(r) ==                       \* mutant: the old row is kept
    /\ pc[r] = "deleteToken"
    /\ Goto(r, "readProfile")
    /\ UNCHANGED <<tables, tokens, spent, loggedOut>>

\* refreshToken.delete rejects when the row is gone.
DeleteToken(r) ==
    /\ pc[r] = "deleteToken"
    /\ \/ /\ arg[r] \in stored
          /\ stored' = stored \ {arg[r]}
          /\ spent' = Append(spent, arg[r])
          /\ Goto(r, "readProfile")
       \/ /\ arg[r] \notin stored
          /\ Finish(r)
          /\ UNCHANGED <<stored, spent>>
    /\ UNCHANGED <<tables, issued, expired, loggedOut>>

ReadProfile(r) ==
    /\ pc[r] = "readProfile"
    /\ Goto(r, "issue")
    /\ UNCHANGED <<tables, tokens, spent, loggedOut>>

\* The session a request's new token belongs to: the refreshed one's, or a new one.
Session(r) == IF arg[r] \in Issued THEN issued[arg[r]].session ELSE Len(issued) + 1

\* issueTokens: refreshToken.create.
IssueTokens(r) ==
    /\ pc[r] = "issue" /\ Len(issued) < MaxTokens
    /\ issued' = Append(issued, [user |-> userOf[r], session |-> Session(r)])
    /\ stored' = stored \cup {Len(issued) + 1}
    /\ Finish(r)
    /\ UNCHANGED <<tables, expired, spent, loggedOut>>

\* A refresh past its delete, which will issue the session's next token.
Renewing(r) == pc[r] \in {"readProfile", "issue"} /\ arg[r] \in Issued

Outdated(t) ==
    \/ \E n \in Issued : n > t /\ issued[n].session = issued[t].session
    \/ \E r \in Requests : Renewing(r) /\ Session(r) = issued[t].session

\* refreshToken.deleteMany, whether or not there is such a row.
Logout(t) ==
    /\ stored' = stored \ {t}
    /\ loggedOut' = IF Outdated(t) THEN loggedOut ELSE loggedOut \cup {issued[t].session}
    /\ UNCHANGED <<tables, issued, expired, locals, spent>>

----------------------------------------------------------------------------
\* An awaited call rejects, or the process dies.
RequestFails(r) ==
    /\ "throw" \in Faults /\ pc[r] # "idle"
    /\ Finish(r)
    /\ UNCHANGED <<tables, tokens, spent, loggedOut>>

Expire(t) ==
    /\ "expire" \in Faults
    /\ expired' = expired \cup {t}
    /\ UNCHANGED <<tables, issued, stored, locals, spent, loggedOut>>

----------------------------------------------------------------------------
AuthInit ==
    /\ users = <<>> /\ profiles = {} /\ scored = {}
    /\ issued = <<>> /\ stored = {} /\ expired = {}
    /\ pc = [r \in Requests |-> "idle"]
    /\ arg = [r \in Requests |-> None]
    /\ userOf = [r \in Requests |-> 0]
    /\ spent = <<>> /\ loggedOut = {}

AuthNext ==
    \/ \E r \in Requests :
          \/ \E e \in Emails : Register(r, e)
          \/ \E u \in UserIds : LoginWithEmail(r, u)
          \/ \E g \in Googles, e \in Emails \cup {None} : LoginWithOAuth(r, g, e)
          \/ \E t \in Issued : FindToken(r, t)
          \/ CreateUser(r) \/ EnsureProfileAndMetrics(r) \/ EnsureFails(r)
          \/ DeleteToken(r) \/ ReadProfile(r) \/ IssueTokens(r) \/ RequestFails(r)
    \/ \E t \in Issued : Logout(t) \/ Expire(t)

AuthSpec == AuthInit /\ [][AuthNext]_authVars

----------------------------------------------------------------------------
(* Types; a request works for a user exactly from the moment it knows one. *)
AuthTypeOK ==
    /\ users \in Seq([email : Emails \cup {None}, google : Googles \cup {None}, password : BOOLEAN])
    /\ profiles \subseteq UserIds /\ scored \subseteq UserIds
    /\ issued \in Seq([user : UserIds, session : Issued])
    /\ stored \subseteq Issued /\ expired \subseteq Issued
    /\ pc \in [Requests -> AuthSteps]
    /\ userOf \in [Requests -> UserIds \cup {0}]
    /\ \A r \in Requests : userOf[r] = 0 <=> pc[r] \in {"idle", "createUser"}
    /\ arg \in [Requests -> Emails \cup {None} \cup Issued]
    /\ \A r \in Requests : /\ pc[r] \in {"deleteToken", "readProfile"} => arg[r] \in Issued
                           /\ pc[r] = "createUser" => arg[r] \in Emails
    /\ spent \in Seq(Issued) /\ loggedOut \subseteq Issued

(* Concurrent registrations and OAuth logins never give one e-mail or one  *)
(* Google subject two accounts, whatever they saw before they wrote a row  *)
(* and whatever address a subject brings (register, findOrCreateUser).     *)
OneAccountPerEmail ==
    \A u, v \in UserIds :
        \/ u = v
        \/ /\ users[u].email = None \/ users[u].email # users[v].email
           /\ users[u].google = None \/ users[u].google # users[v].google

(* Refresh tokens are one-time: at most one refresh of a token gets past   *)
(* the delete, however many present it at once (refresh).                  *)
TokenSpentOnce == \A i, j \in DOMAIN spent : spent[i] = spent[j] => i = j

(* A session has at most one credential: one live token, or one refresh    *)
(* that has deleted it and will issue the next.                            *)
OneCredential ==
    /\ \A t, n \in stored : issued[t].session = issued[n].session => t = n
    /\ \A q, r \in Requests :
          (Renewing(q) /\ Renewing(r) /\ Session(q) = Session(r)) => q = r
    /\ \A r \in Requests, t \in stored : Renewing(r) => Session(r) # issued[t].session

(* Whoever holds a live refresh token has a profile and a metrics row:     *)
(* login repairs a registration that failed half-way (issueTokens after    *)
(* ensureProfileAndMetrics).                                               *)
TokenHolderComplete == \A t \in stored : issued[t].user \in profiles \cap scored

(* A session its client logged out of stays ended: no token of it is live  *)
(* or under way again, although a refresh may have found the token before  *)
(* logout deleted it.  Only a refresh that had already deleted the token   *)
(* survives the logout (logout, refresh; README.md:153).                   *)
LogoutEndsSession ==
    /\ \A t \in stored : issued[t].session \notin loggedOut
    /\ \A r \in Requests : Renewing(r) => Session(r) \notin loggedOut
=============================================================================
