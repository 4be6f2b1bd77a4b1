-------------------------- MODULE AuthTokensProofs --------------------------
(***************************************************************************)
(* Theorems about AuthTokens, for any number of addresses, subjects,       *)
(* concurrent requests, users and tokens.                                  *)
(***************************************************************************)
EXTENDS AuthTokens, SequenceTheorems, TLAPS

USE AuthAssumption

(* What a request has in hand at each step.                                *)
RequestSteps ==
    \A r \in Requests :
        /\ pc[r] = "ensureRows" => arg[r] \in Emails \cup {None}
        /\ arg[r] \in Issued => userOf[r] = issued[arg[r]].user
        /\ pc[r] \in {"deleteToken", "readProfile", "issue"} => userOf[r] \in profiles \cap scored

(* A spent token has no row, and a token with a row is its session's last. *)
Rotation ==
    /\ \A i \in DOMAIN spent : spent[i] \notin stored
    /\ \A t \in stored, n \in Issued : issued[n].session = issued[t].session => n <= t

----------------------------------------------------------------------------
\* AuthTypeOK in two parts: the tables and the requests' locals.

UserRow == [email : Emails \cup {None}, google : Googles \cup {None}, password : BOOLEAN]

TableTypes ==
    /\ users \in Seq(UserRow)
    /\ profiles \subseteq UserIds /\ scored \subseteq UserIds
    /\ issued \in Seq([user : UserIds, session : Issued])
    /\ stored \subseteq Issued /\ expired \subseteq Issued
    /\ spent \in Seq(Issued) /\ loggedOut \subseteq Issued

LocalTypes ==
    /\ pc \in [Requests -> AuthSteps]
    /\ userOf \in [Requests -> UserIds \cup {0}]
    /\ \A r \in Requests : userOf[r] = 0 <=> pc[r] \in {"idle", "createUser"}
    /\ arg \in [Requests -> Emails \cup {None} \cup Issued]
    /\ \A r \in Requests : /\ pc[r] \in {"deleteToken", "readProfile"} => arg[r] \in Issued
                           /\ pc[r] = "createUser" => arg[r] \in Emails

LEMMA TypeParts == AuthTypeOK <=> TableTypes /\ LocalTypes
  BY DEF AuthTypeOK, TableTypes, LocalTypes, UserRow

LEMMA Domains ==
  ASSUME TableTypes
  PROVE  /\ UserIds = 1 .. Len(users) /\ Len(users) \in Nat
         /\ Issued = 1 .. Len(issued) /\ Len(issued) \in Nat
  BY LenProperties DEF TableTypes, UserIds, Issued

LEMMA TokenRow ==
  ASSUME TableTypes, NEW t \in Issued
  PROVE  issued[t].user \in UserIds /\ issued[t].session \in Issued /\ issued[t].user # 0
  <1>1. issued[t] \in [user : UserIds, session : Issued]
    BY Domains, ElementOfSeq DEF TableTypes
  <1> QED  BY <1>1, Domains

LEMMA IssuedAppend ==
  ASSUME TableTypes, NEW row, issued' = Append(issued, row)
  PROVE  /\ Issued' = Issued \cup {Len(issued) + 1} /\ Len(issued) + 1 \notin Issued
         /\ \A t \in Issued : issued'[t] = issued[t] /\ t <= Len(issued)
         /\ issued'[Len(issued) + 1] = row
  <1> DEFINE S == [user : UserIds, session : Issued] \cup {row}
  <1>1. issued \in Seq(S) /\ row \in S
    BY SeqMonotonic DEF TableTypes
  <1>2. /\ Append(issued, row) \in Seq(S) /\ Len(Append(issued, row)) = Len(issued) + 1
        /\ \A i \in 1 .. Len(issued) : Append(issued, row)[i] = issued[i]
        /\ Append(issued, row)[Len(issued) + 1] = row
    BY <1>1, AppendProperties
  <1>3. Issued' = 1 .. Len(issued) + 1
    BY <1>2, LenProperties DEF Issued
  <1> QED  BY <1>2, <1>3, Domains

\* A step that issues no token.
LEMMA TableStep ==
  ASSUME TableTypes, users' \in Seq(UserRow), Len(users) <= Len(users'),
         profiles' \subseteq UserIds', scored' \subseteq UserIds',
         issued' = issued, stored' \subseteq Issued, expired' \subseteq Issued,
         spent' \in Seq(Issued), loggedOut' \subseteq Issued
  PROVE  TableTypes' /\ UserIds \subseteq UserIds' /\ Issued' = Issued
  <1>1. UserIds \subseteq UserIds'
    <2>1. UserIds' = 1 .. Len(users')
      BY LenProperties DEF UserIds
    <2>2. Len(users') \in Nat
      BY LenProperties
    <2> QED  BY <2>1, <2>2, Domains
  <1>2. Issued' = Issued
    BY DEF Issued
  <1>3. [user : UserIds, session : Issued] \subseteq [user : UserIds', session : Issued']
    BY <1>1, <1>2
  <1>4. issued' \in Seq([user : UserIds', session : Issued'])
    BY <1>3, SeqMonotonic DEF TableTypes
  <1> QED  BY <1>1, <1>2, <1>4 DEF TableTypes

\* A step in which request r alone moves.
LEMMA LocalStep ==
  ASSUME LocalTypes, UserIds \subseteq UserIds', Issued \subseteq Issued', NEW r \in Requests,
         NEW step \in AuthSteps, NEW a \in Emails \cup {None} \cup Issued', NEW u \in UserIds' \cup {0},
         u = 0 <=> step \in {"idle", "createUser"},
         step \in {"deleteToken", "readProfile"} => a \in Issued', step = "createUser" => a \in Emails,
         pc' = [pc EXCEPT ![r] = step], arg' = [arg EXCEPT ![r] = a], userOf' = [userOf EXCEPT ![r] = u]
  PROVE  LocalTypes'
  BY DEF LocalTypes

LEMMA FinishStep ==
  ASSUME LocalTypes, UserIds \subseteq UserIds', Issued \subseteq Issued', NEW r \in Requests, Finish(r)
  PROVE  LocalTypes'
  BY LocalStep DEF Finish, AuthSteps

\* From a step that works for a user to another one.
LEMMA GotoStep ==
  ASSUME LocalTypes, UserIds \subseteq UserIds', Issued \subseteq Issued', NEW r \in Requests,
         NEW step \in {"ensureRows", "readProfile", "issue"}, Goto(r, step), pc[r] \notin {"idle", "createUser"},
         step = "readProfile" => arg[r] \in Issued
  PROVE  LocalTypes'
  BY DEF Goto, LocalTypes, AuthSteps

LEMMA LocalsKept ==
  ASSUME LocalTypes, UNCHANGED <<locals, users, issued>>
  PROVE  LocalTypes'
  BY DEF LocalTypes, locals, UserIds, Issued

----------------------------------------------------------------------------
LEMMA AuthTypeInit == AuthInit => AuthTypeOK
  <1> SUFFICES ASSUME AuthInit PROVE TableTypes /\ LocalTypes
    BY TypeParts
  <1>1. DOMAIN << >> = {}
    OBVIOUS
  <1>2. TableTypes
    BY <1>1 DEF AuthInit, TableTypes, UserIds, Issued
  <1> QED  BY <1>2 DEF AuthInit, LocalTypes, AuthSteps

LEMMA AuthTypeStep ==
  ASSUME AuthTypeOK, [AuthNext]_authVars
  PROVE  AuthTypeOK' /\ UserIds \subseteq UserIds' /\ Issued \subseteq Issued'
  <1> DEFINE Good == AuthTypeOK' /\ UserIds \subseteq UserIds' /\ Issued \subseteq Issued'
  <1>0. TableTypes /\ LocalTypes /\ (TableTypes' /\ LocalTypes' => AuthTypeOK')
    BY TypeParts DEF AuthTypeOK, TableTypes, LocalTypes, UserRow
  <1>1. ASSUME NEW r \in Requests, NEW e \in Emails, Register(r, e) PROVE Good
    <2>1. TableTypes' /\ UserIds \subseteq UserIds' /\ Issued' = Issued
      BY <1>0, <1>1, TableStep DEF Register, TableTypes, tables, tokens, UserIds
    <2>2. LocalTypes'
      BY <1>0, <1>1, <2>1, LocalStep DEF Register, Begin, AuthSteps
    <2> QED  BY <1>0, <2>1, <2>2
  <1>2. ASSUME NEW r \in Requests, NEW u \in UserIds, LoginWithEmail(r, u) PROVE Good
    <2>1. TableTypes' /\ UserIds \subseteq UserIds' /\ Issued' = Issued
      BY <1>0, <1>2, TableStep DEF LoginWithEmail, TableTypes, tables, tokens, UserIds
    <2>2. u # 0
      BY <1>0, Domains
    <2>3. LocalTypes'
      BY <1>0, <1>2, <2>1, <2>2, LocalStep DEF LoginWithEmail, Begin, AuthSteps
    <2> QED  BY <1>0, <2>1, <2>3
  <1>3. ASSUME NEW r \in Requests, NEW g \in Googles, NEW e \in Emails \cup {None}, LoginWithOAuth(r, g, e)
        PROVE  Good
    <2>1. PICK u \in UserIds' : /\ users' \in Seq(UserRow) /\ Len(users) <= Len(users')
                                /\ Begin(r, "ensureRows", None, u) /\ u # 0
      <3>1. CASE \E u \in UserIds :
                    /\ users[u].google = g /\ Begin(r, "ensureRows", None, u)
                    /\ users' = IF e = None THEN users ELSE [users EXCEPT ![u].email = e]
        <4>1. PICK u \in UserIds : /\ Begin(r, "ensureRows", None, u)
                                   /\ users' = IF e = None THEN users ELSE [users EXCEPT ![u].email = e]
          BY <3>1
        <4>2. users[u] \in UserRow /\ u \in 1 .. Len(users)
          BY <1>0, Domains, ElementOfSeq DEF TableTypes
        <4>3. [users[u] EXCEPT !.email = e] \in UserRow
          BY <4>2 DEF UserRow
        <4>4. [users EXCEPT ![u].email = e] \in Seq(UserRow) /\ Len([users EXCEPT ![u].email = e]) = Len(users)
          BY <1>0, <4>2, <4>3, ExceptSeq DEF TableTypes
        <4>5. users' \in Seq(UserRow) /\ Len(users') = Len(users)
          BY <1>0, <4>1, <4>4 DEF TableTypes
        <4>6. UserIds' = UserIds /\ u # 0
          BY <1>0, <4>2, <4>5, Domains, LenProperties DEF UserIds
        <4> QED  BY <1>0, <4>1, <4>5, <4>6, Domains
      <3>2. CASE /\ users' = Append(users, [email |-> e, google |-> g, password |-> FALSE])
                 /\ Begin(r, "ensureRows", None, Len(users) + 1)
        <4>1. [email |-> e, google |-> g, password |-> FALSE] \in UserRow
          BY DEF UserRow
        <4>2. users' \in Seq(UserRow) /\ Len(users') = Len(users) + 1
          BY <1>0, <3>2, <4>1, AppendProperties DEF TableTypes
        <4>3. Len(users) + 1 \in UserIds' /\ Len(users) + 1 # 0
          BY <1>0, <4>2, Domains, LenProperties DEF UserIds
        <4> QED  BY <1>0, <3>2, <4>2, <4>3, Domains
      <3> QED  BY <1>3, <3>1, <3>2 DEF LoginWithOAuth
    <2>2. profiles' \subseteq UserIds' /\ scored' \subseteq UserIds'
      <3>1. UserIds \subseteq UserIds'
        BY <1>0, <2>1, Domains, LenProperties DEF UserIds
      <3> QED  BY <1>0, <1>3, <3>1 DEF LoginWithOAuth, TableTypes
    <2>3. TableTypes' /\ UserIds \subseteq UserIds' /\ Issued' = Issued
      BY <1>0, <1>3, <2>1, <2>2, TableStep DEF LoginWithOAuth, TableTypes, tokens
    <2>4. LocalTypes'
      BY <1>0, <2>1, <2>3, LocalStep DEF Begin, AuthSteps
    <2> QED  BY <1>0, <2>3, <2>4
  <1>4. ASSUME NEW r \in Requests, NEW t \in Issued, FindToken(r, t) PROVE Good
    <2>1. TableTypes' /\ UserIds \subseteq UserIds' /\ Issued' = Issued
      BY <1>0, <1>4, TableStep DEF FindToken, TableTypes, tables, tokens, UserIds
    <2>2. issued[t].user \in UserIds' \cup {0} /\ issued[t].user # 0
      BY <1>0, <2>1, TokenRow
    <2>3. LocalTypes'
      BY <1>0, <1>4, <2>1, <2>2, LocalStep DEF FindToken, Begin, AuthSteps
    <2> QED  BY <1>0, <2>1, <2>3
  <1>5. ASSUME NEW r \in Requests, CreateUser(r) PROVE Good
    <2>1. CASE Finish(r) /\ users' = users
      <3>1. TableTypes' /\ UserIds \subseteq UserIds' /\ Issued' = Issued
        BY <1>0, <1>5, <2>1, TableStep DEF CreateUser, TableTypes, tokens, UserIds
      <3> QED  BY <1>0, <2>1, <3>1, FinishStep
    <2>2. CASE /\ users' = Append(users, [email |-> arg[r], google |-> None, password |-> TRUE])
               /\ pc' = [pc EXCEPT ![r] = "ensureRows"] /\ arg' = arg
               /\ userOf' = [userOf EXCEPT ![r] = Len(users) + 1]
      <3>1. arg[r] \in Emails \cup {None}
        BY <1>0, <1>5 DEF CreateUser, LocalTypes
      <3>2. [email |-> arg[r], google |-> None, password |-> TRUE] \in UserRow
        BY <3>1 DEF UserRow
      <3>3. users' \in Seq(UserRow) /\ Len(users') = Len(users) + 1
        BY <1>0, <2>2, <3>2, AppendProperties DEF TableTypes
      <3>4. Len(users) + 1 \in UserIds' /\ Len(users) + 1 # 0 /\ UserIds \subseteq UserIds'
        BY <1>0, <3>3, Domains, LenProperties DEF UserIds
      <3>5. TableTypes' /\ Issued' = Issued
        <4>1. Len(users) <= Len(users')
          BY <1>0, <3>3, Domains
        <4> QED  BY <1>0, <1>5, <3>3, <3>4, <4>1, TableStep DEF CreateUser, TableTypes, tokens
      <3>6. LocalTypes'
        BY <1>0, <2>2, <3>1, <3>4, <3>5, LocalStep DEF AuthSteps, LocalTypes
      <3> QED  BY <1>0, <3>4, <3>5, <3>6
    <2> QED  BY <1>5, <2>1, <2>2 DEF CreateUser
  <1>6. ASSUME NEW r \in Requests, EnsureProfileAndMetrics(r) \/ EnsureFails(r) PROVE Good
    <2>1. userOf[r] \in UserIds
      BY <1>0, <1>6 DEF EnsureProfileAndMetrics, EnsureFails, LocalTypes
    <2>2. profiles' \subseteq UserIds' /\ scored' \subseteq UserIds'
      BY <1>0, <1>6, <2>1 DEF EnsureProfileAndMetrics, EnsureFails, TableTypes, UserIds
    <2>3. TableTypes' /\ UserIds \subseteq UserIds' /\ Issued' = Issued
      BY <1>0, <1>6, <2>2, TableStep DEF EnsureProfileAndMetrics, EnsureFails, TableTypes, tokens, UserIds
    <2>4. LocalTypes'
      BY <1>0, <1>6, <2>3, GotoStep, FinishStep DEF EnsureProfileAndMetrics, EnsureFails
    <2> QED  BY <1>0, <2>3, <2>4
  <1>7. ASSUME NEW r \in Requests, DeleteToken(r) PROVE Good
    <2>1. arg[r] \in Issued
      BY <1>0, <1>7 DEF DeleteToken, LocalTypes
    <2>2. stored' \subseteq Issued /\ spent' \in Seq(Issued)
      <3>1. Append(spent, arg[r]) \in Seq(Issued)
        BY <1>0, <2>1, AppendProperties DEF TableTypes
      <3> QED  BY <1>0, <1>7, <3>1 DEF DeleteToken, TableTypes
    <2>3. TableTypes' /\ UserIds \subseteq UserIds' /\ Issued' = Issued
      BY <1>0, <1>7, <2>2, TableStep DEF DeleteToken, TableTypes, tables, UserIds
    <2>4. LocalTypes'
      BY <1>0, <1>7, <2>1, <2>3, GotoStep, FinishStep DEF DeleteToken
    <2> QED  BY <1>0, <2>3, <2>4
  <1>8. ASSUME NEW r \in Requests, ReadProfile(r) \/ RequestFails(r) PROVE Good
    <2>1. TableTypes' /\ UserIds \subseteq UserIds' /\ Issued' = Issued
      BY <1>0, <1>8, TableStep DEF ReadProfile, RequestFails, TableTypes, tables, tokens, UserIds
    <2>2. LocalTypes'
      BY <1>0, <1>8, <2>1, GotoStep, FinishStep DEF ReadProfile, RequestFails
    <2> QED  BY <1>0, <2>1, <2>2
  <1>9. ASSUME NEW r \in Requests, IssueTokens(r) PROVE Good
    <2>1. userOf[r] \in UserIds /\ UserIds' = UserIds
      BY <1>0, <1>9 DEF IssueTokens, LocalTypes, tables, UserIds
    <2>2. Session(r) \in 1 .. Len(issued) + 1
      BY <1>0, TokenRow, Domains DEF Session
    <2> DEFINE row == [user |-> userOf[r], session |-> Session(r)]
               more == 1 .. Len(issued) + 1
    <2>3. [user : UserIds, session : Issued] \subseteq [user : UserIds, session : more]
      BY <1>0, Domains
    <2>4. issued \in Seq([user : UserIds, session : more]) /\ row \in [user : UserIds, session : more]
      BY <1>0, <2>1, <2>2, <2>3, SeqMonotonic DEF TableTypes
    <2>5. issued' = Append(issued, row)
      BY <1>9 DEF IssueTokens
    <2>6. issued' \in Seq([user : UserIds, session : more]) /\ Len(issued') = Len(issued) + 1
      BY <2>4, <2>5, AppendProperties
    <2>7. Issued' = more /\ Issued \subseteq Issued' /\ Len(issued) + 1 \in Issued'
      <3>1. Issued' = more
        BY <2>6, LenProperties DEF Issued
      <3> QED  BY <1>0, <3>1, Domains
    <2>8. spent' \in Seq(Issued')
      BY <1>0, <1>9, <2>7, SeqMonotonic DEF IssueTokens, TableTypes
    <2>9. TableTypes'
      BY <1>0, <1>9, <2>1, <2>6, <2>7, <2>8 DEF IssueTokens, TableTypes, tables
    <2>10. LocalTypes'
      BY <1>0, <1>9, <2>1, <2>7, FinishStep DEF IssueTokens
    <2> QED  BY <1>0, <2>1, <2>7, <2>9, <2>10
  <1>10. ASSUME NEW t \in Issued, Logout(t) \/ Expire(t) PROVE Good
    <2>1. issued[t].session \in Issued
      BY <1>0, TokenRow
    <2>2. TableTypes' /\ UserIds \subseteq UserIds' /\ Issued' = Issued
      BY <1>0, <1>10, <2>1, TableStep DEF Logout, Expire, TableTypes, tables, UserIds
    <2>3. LocalTypes'
      BY <1>0, <1>10, LocalsKept DEF Logout, Expire, tables
    <2> QED  BY <1>0, <2>2, <2>3
  <1>11. CASE UNCHANGED authVars
    <2>1. TableTypes' /\ UserIds \subseteq UserIds' /\ Issued' = Issued
      BY <1>0, <1>11, TableStep DEF authVars, TableTypes, tables, tokens, UserIds
    <2>2. LocalTypes'
      BY <1>0, <1>11, LocalsKept DEF authVars, tables, tokens
    <2> QED  BY <1>0, <2>1, <2>2
  <1> QED
    BY <1>1, <1>2, <1>3, <1>4, <1>5, <1>6, <1>7, <1>8, <1>9, <1>10, <1>11 DEF AuthNext

----------------------------------------------------------------------------
\* What is in hand.

LEMMA StepsStep ==
  ASSUME AuthTypeOK, RequestSteps, TokenHolderComplete, [AuthNext]_authVars
  PROVE  RequestSteps' /\ TokenHolderComplete'
  <1> DEFINE Good == RequestSteps' /\ TokenHolderComplete'
  <1>0. TableTypes /\ LocalTypes
    BY TypeParts
  <1>1. ASSUME NEW r \in Requests, NEW e \in Emails, Register(r, e) PROVE Good
    BY <1>0, <1>1, Domains DEF Register, Begin, RequestSteps, TokenHolderComplete, LocalTypes, tables, tokens, Issued
  <1>2. ASSUME NEW r \in Requests, NEW u \in UserIds, LoginWithEmail(r, u) PROVE Good
    BY <1>0, <1>2, Domains DEF LoginWithEmail, Begin, RequestSteps, TokenHolderComplete, LocalTypes, tables, tokens, Issued
  <1>3. ASSUME NEW r \in Requests, NEW g \in Googles, NEW e \in Emails \cup {None}, LoginWithOAuth(r, g, e)
        PROVE  Good
    <2>1. PICK u : Begin(r, "ensureRows", None, u)
      BY <1>3 DEF LoginWithOAuth
    <2> QED
      BY <1>0, <1>3, <2>1, Domains DEF LoginWithOAuth, Begin, RequestSteps, TokenHolderComplete, LocalTypes, tokens, Issued
  <1>4. ASSUME NEW r \in Requests, NEW t \in Issued, FindToken(r, t) PROVE Good
    BY <1>0, <1>4 DEF FindToken, Begin, RequestSteps, TokenHolderComplete, LocalTypes, tables, tokens, Issued
  <1>5. ASSUME NEW r \in Requests, CreateUser(r) PROVE Good
    BY <1>0, <1>5, Domains DEF CreateUser, Finish, RequestSteps, TokenHolderComplete, LocalTypes, tokens, Issued
  <1>6. ASSUME NEW r \in Requests, EnsureProfileAndMetrics(r) \/ EnsureFails(r) PROVE Good
    <2>1. profiles \subseteq profiles' /\ scored \subseteq scored'
      BY <1>6 DEF EnsureProfileAndMetrics, EnsureFails
    <2>2. arg[r] \in Emails \cup {None} /\ arg[r] \notin Issued
      BY <1>0, <1>6, Domains DEF EnsureProfileAndMetrics, EnsureFails, RequestSteps
    <2> QED
      BY <1>0, <1>6, <2>1, <2>2, Domains
      DEF EnsureProfileAndMetrics, EnsureFails, Goto, Finish, RequestSteps, TokenHolderComplete, LocalTypes, tokens, Issued
  <1>7. ASSUME NEW r \in Requests, DeleteToken(r) PROVE Good
    BY <1>0, <1>7, Domains DEF DeleteToken, Goto, Finish, RequestSteps, TokenHolderComplete, LocalTypes, tables, Issued
  <1>8. ASSUME NEW r \in Requests, ReadProfile(r) \/ RequestFails(r) PROVE Good
    BY <1>0, <1>8, Domains DEF ReadProfile, RequestFails, Goto, Finish, RequestSteps, TokenHolderComplete, LocalTypes, tables, tokens, Issued
  <1>9. ASSUME NEW r \in Requests, IssueTokens(r) PROVE Good
    <2> DEFINE row == [user |-> userOf[r], session |-> Session(r)]
    <2>1. /\ Issued' = Issued \cup {Len(issued) + 1} /\ Len(issued) + 1 \notin Issued
          /\ \A t \in Issued : issued'[t] = issued[t]
          /\ issued'[Len(issued) + 1] = row
      BY <1>0, <1>9, IssuedAppend DEF IssueTokens
    <2>2. userOf[r] \in profiles \cap scored
      BY <1>9 DEF IssueTokens, RequestSteps
    <2>3. TokenHolderComplete'
      <3>1. stored' = stored \cup {Len(issued) + 1} /\ profiles' = profiles /\ scored' = scored
        BY <1>9 DEF IssueTokens, tables
      <3>2. stored \subseteq Issued /\ row.user = userOf[r]
        BY <1>0 DEF TableTypes
      <3>3. ASSUME NEW t \in stored' PROVE issued'[t].user \in profiles' \cap scored'
        <4>1. CASE t \in stored
          BY <2>1, <3>1, <3>2, <4>1 DEF TokenHolderComplete
        <4>2. CASE t = Len(issued) + 1
          BY <2>1, <2>2, <3>1, <3>2, <4>2
        <4> QED  BY <3>1, <4>1, <4>2
      <3> QED  BY <3>3 DEF TokenHolderComplete
    <2>4. RequestSteps'
      BY <1>0, <1>9, <2>1, Domains DEF IssueTokens, Finish, RequestSteps, LocalTypes, tables
    <2> QED  BY <2>3, <2>4
  <1>10. ASSUME NEW t \in Issued, Logout(t) \/ Expire(t) PROVE Good
    BY <1>10 DEF Logout, Expire, RequestSteps, TokenHolderComplete, tables, locals, Issued
  <1>11. CASE UNCHANGED authVars
    BY <1>11 DEF authVars, RequestSteps, TokenHolderComplete, tables, tokens, locals, Issued
  <1> QED
    BY <1>1, <1>2, <1>3, <1>4, <1>5, <1>6, <1>7, <1>8, <1>9, <1>10, <1>11 DEF AuthNext

----------------------------------------------------------------------------
\* Accounts

LEMMA AccountsStep ==
  ASSUME AuthTypeOK, OneAccountPerEmail, [AuthNext]_authVars
  PROVE  OneAccountPerEmail'
  <1>0. TableTypes /\ LocalTypes
    BY TypeParts
  <1>1. CASE users' = users
    BY <1>1 DEF OneAccountPerEmail, UserIds
  <1>2. ASSUME NEW row \in UserRow, users' = Append(users, row), ~EmailTaken(row.email),
               row.google = None \/ \A u \in UserIds : users[u].google # row.google
        PROVE  OneAccountPerEmail'
    <2>1. /\ UserIds' = UserIds \cup {Len(users) + 1}
          /\ \A u \in UserIds : users'[u] = users[u]
          /\ users'[Len(users) + 1] = row
      <3>1. /\ users' \in Seq(UserRow) /\ Len(users') = Len(users) + 1
            /\ \A u \in 1 .. Len(users) : users'[u] = users[u]
            /\ users'[Len(users) + 1] = row
        BY <1>0, <1>2, AppendProperties DEF TableTypes
      <3>2. UserIds' = 1 .. Len(users')
        BY <3>1, LenProperties DEF UserIds
      <3> QED  BY <1>0, <3>1, <3>2, Domains
    <2> SUFFICES ASSUME NEW u \in UserIds', NEW v \in UserIds', u # v
                 PROVE  /\ users'[u].email = None \/ users'[u].email # users'[v].email
                        /\ users'[u].google = None \/ users'[u].google # users'[v].google
      BY DEF OneAccountPerEmail
    <2>2. CASE u \in UserIds /\ v \in UserIds
      BY <2>1, <2>2 DEF OneAccountPerEmail
    <2>3. CASE u = Len(users) + 1 /\ v \in UserIds
      BY <1>2, <2>1, <2>3 DEF EmailTaken
    <2>4. CASE v = Len(users) + 1 /\ u \in UserIds
      BY <1>2, <2>1, <2>4 DEF EmailTaken
    <2> QED  BY <2>1, <2>2, <2>3, <2>4
  <1>3. ASSUME NEW r \in Requests, NEW g \in Googles, NEW e \in Emails \cup {None}, LoginWithOAuth(r, g, e)
        PROVE  OneAccountPerEmail'
    <2>1. ASSUME NEW u \in UserIds, EmailTaken(e) => users[u].email = e,
                 users' = IF e = None THEN users ELSE [users EXCEPT ![u].email = e]
          PROVE  OneAccountPerEmail'
      <3>1. UserIds' = UserIds
        BY <2>1 DEF UserIds
      <3>2. CASE e # None
        <4>1. \A v \in UserIds : users'[v] = IF v = u THEN [users[u] EXCEPT !.email = e] ELSE users[v]
          BY <2>1, <3>2 DEF UserIds
        <4>2. users[u] \in UserRow
          BY <1>0, Domains, ElementOfSeq DEF TableTypes
        <4>3. \A v \in UserIds : v # u => users[v].email # e
          BY <2>1, <3>2 DEF EmailTaken, OneAccountPerEmail
        <4>4. [users[u] EXCEPT !.email = e].email = e /\ [users[u] EXCEPT !.email = e].google = users[u].google
          BY <4>2 DEF UserRow
        <4>5. users'[u].email = e /\ users'[u].google = users[u].google
          BY <4>1, <4>4
        <4>6. \A v \in UserIds : v # u => users'[v] = users[v]
          BY <4>1
        <4> SUFFICES ASSUME NEW v \in UserIds, NEW w \in UserIds, v # w
                     PROVE  /\ users'[v].email = None \/ users'[v].email # users'[w].email
                            /\ users'[v].google = None \/ users'[v].google # users'[w].google
          BY <3>1 DEF OneAccountPerEmail
        <4>7. /\ users[v].email = None \/ users[v].email # users[w].email
              /\ users[v].google = None \/ users[v].google # users[w].google
          BY DEF OneAccountPerEmail
        <4>8. CASE v # u /\ w # u
          BY <4>6, <4>7, <4>8
        <4>9. CASE v = u
          BY <4>3, <4>5, <4>6, <4>7, <4>9
        <4>10. CASE w = u
          <5>1. users[v].email # e /\ users'[v] = users[v]
            BY <4>3, <4>6, <4>10
          <5> QED  BY <4>5, <4>7, <4>10, <5>1
        <4> QED  BY <4>8, <4>9, <4>10
      <3> QED  BY <1>1, <2>1, <3>2
    <2>2. [email |-> e, google |-> g, password |-> FALSE] \in UserRow
      BY DEF UserRow
    <2> QED  BY <1>2, <1>3, <2>1, <2>2 DEF LoginWithOAuth
  <1>4. ASSUME NEW r \in Requests, CreateUser(r) PROVE OneAccountPerEmail'
    <2>1. arg[r] \in Emails
      BY <1>0, <1>4 DEF CreateUser, LocalTypes
    <2>2. [email |-> arg[r], google |-> None, password |-> TRUE] \in UserRow
      BY <2>1 DEF UserRow
    <2> QED  BY <1>1, <1>2, <1>4, <2>2 DEF CreateUser
  <1> QED
    BY <1>1, <1>3, <1>4
    DEF AuthNext, Register, LoginWithEmail, FindToken, EnsureProfileAndMetrics, EnsureFails, DeleteToken,
        ReadProfile, IssueTokens, RequestFails, Logout, Expire, tables, authVars

----------------------------------------------------------------------------
\* Tokens and sessions

Sessions == TokenSpentOnce /\ Rotation /\ OneCredential /\ LogoutEndsSession

LEMMA SessionsStep ==
  ASSUME AuthTypeOK, RequestSteps, Sessions, [AuthNext]_authVars
  PROVE  Sessions'
  <1>0. TableTypes /\ LocalTypes
    BY TypeParts
  <1> USE DEF Sessions
  \* A step that touches no token and takes no request past its delete.
  <1>1. ASSUME UNCHANGED <<issued, stored, spent, loggedOut>>,
               \A r \in Requests : Renewing(r)' => Renewing(r) /\ arg'[r] = arg[r]
        PROVE  Sessions'
    BY <1>1 DEF TokenSpentOnce, Rotation, OneCredential, LogoutEndsSession, Session, Issued, Renewing
  <1>2. ASSUME NEW r \in Requests, DeleteToken(r) PROVE Sessions'
    <2>1. CASE Finish(r) /\ UNCHANGED <<stored, spent>>
      BY <1>0, <1>1, <1>2, <2>1 DEF DeleteToken, Finish, Renewing, LocalTypes, Issued
    <2>2. CASE arg[r] \in stored /\ stored' = stored \ {arg[r]} /\ spent' = Append(spent, arg[r])
               /\ Goto(r, "readProfile")
      <3>1. /\ Len(spent) \in Nat /\ DOMAIN spent = 1 .. Len(spent)
            /\ DOMAIN spent' = DOMAIN spent \cup {Len(spent) + 1}
            /\ \A i \in DOMAIN spent : spent'[i] = spent[i]
            /\ spent'[Len(spent) + 1] = arg[r]
        <4>1. arg[r] \in Issued /\ spent \in Seq(Issued)
          BY <1>0, <2>2 DEF TableTypes
        <4>2. /\ spent' \in Seq(Issued) /\ Len(spent') = Len(spent) + 1
              /\ \A i \in 1 .. Len(spent) : spent'[i] = spent[i]
              /\ spent'[Len(spent) + 1] = arg[r]
          BY <2>2, <4>1, AppendProperties
        <4>3. /\ DOMAIN spent = 1 .. Len(spent) /\ Len(spent) \in Nat
              /\ DOMAIN spent' = 1 .. Len(spent')
          BY <4>1, <4>2, LenProperties
        <4> QED  BY <4>2, <4>3
      <3>2. \A i \in DOMAIN spent : spent[i] # arg[r]
        BY <2>2 DEF Rotation
      <3>3. TokenSpentOnce'
        BY <3>1, <3>2 DEF TokenSpentOnce
      <3>4. Rotation'
        BY <1>2, <2>2, <3>1 DEF DeleteToken, Rotation, Issued
      <3>5. issued' = issued /\ arg' = arg /\ loggedOut' = loggedOut
            /\ \A q \in Requests \ {r} : pc'[q] = pc[q]
        BY <1>2, <2>2 DEF DeleteToken, Goto
      <3>6. \A q \in Requests \ {r} : Renewing(q)' = Renewing(q) /\ Session(q)' = Session(q)
        BY <3>5 DEF Renewing, Session, Issued
      <3>7. arg[r] \in Issued /\ Session(r)' = issued[arg[r]].session
        BY <1>0, <2>2, <3>5 DEF TableTypes, Session, Issued
      <3>8. \A q \in Requests \ {r} : Renewing(q) => Session(q) # Session(r)'
        BY <2>2, <3>7 DEF OneCredential
      <3>9. \A t \in stored' : issued[t].session # Session(r)'
        BY <2>2, <3>7 DEF OneCredential
      <3>10. Session(r)' \notin loggedOut
        BY <2>2, <3>7 DEF LogoutEndsSession
      <3>11. OneCredential'
        BY <2>2, <3>5, <3>6, <3>8, <3>9 DEF OneCredential
      <3>12. LogoutEndsSession'
        BY <2>2, <3>5, <3>6, <3>10 DEF LogoutEndsSession
      <3> QED  BY <3>3, <3>4, <3>11, <3>12
    <2> QED  BY <1>2, <2>1, <2>2 DEF DeleteToken
  <1>3. ASSUME NEW r \in Requests, IssueTokens(r) PROVE Sessions'
    <2> DEFINE new == Len(issued) + 1
    <2>1. /\ Issued' = Issued \cup {new} /\ new \notin Issued
          /\ \A t \in Issued : issued'[t] = issued[t] /\ t <= Len(issued)
          /\ issued'[new] = [user |-> userOf[r], session |-> Session(r)]
      BY <1>0, <1>3, IssuedAppend DEF IssueTokens
    <2>2. /\ stored' = stored \cup {new} /\ stored \subseteq Issued
          /\ spent' = spent /\ loggedOut' = loggedOut /\ loggedOut \subseteq Issued
      BY <1>0, <1>3 DEF IssueTokens, TableTypes
    <2>3. issued'[new].session = Session(r)
      BY <2>1
    <2>4. \A q \in Requests \ {r} : pc'[q] = pc[q] /\ arg'[q] = arg[q] /\ arg[q] # new
      BY <1>0, <1>3, <2>1, Domains DEF IssueTokens, Finish, LocalTypes
    <2>5. ~Renewing(r)'
      BY <1>0, <1>3 DEF IssueTokens, Finish, Renewing, LocalTypes
    <2>6. \A q \in Requests \ {r} : /\ Renewing(q)' <=> Renewing(q)
                                    /\ Renewing(q) => Session(q)' = Session(q) /\ Session(q) \in Issued
      BY <1>0, <2>1, <2>4, TokenRow DEF Renewing, Session
    <2>7. \/ Renewing(r)
          \/ Session(r) = new
      BY <1>3 DEF IssueTokens, Renewing, Session
    <2>8. \A t \in stored : issued[t].session # Session(r)
      BY <1>0, <2>1, <2>2, <2>7, TokenRow DEF OneCredential
    <2>9. \A q \in Requests \ {r} : Renewing(q) => Session(q) # Session(r)
      BY <2>1, <2>6, <2>7 DEF OneCredential
    <2>10. Session(r) \notin loggedOut
      BY <2>1, <2>2, <2>7 DEF LogoutEndsSession
    <2>11. \A i \in DOMAIN spent : spent[i] \in Issued
      BY <1>0, LenProperties, ElementOfSeq DEF TableTypes
    <2>12. TokenSpentOnce' /\ OneCredential'
      BY <2>1, <2>2, <2>3, <2>5, <2>6, <2>8, <2>9 DEF TokenSpentOnce, OneCredential
    <2>13. LogoutEndsSession'
      BY <2>1, <2>2, <2>3, <2>5, <2>6, <2>10 DEF LogoutEndsSession
    <2>14. Rotation'
      <3>1. \A i \in DOMAIN spent : spent[i] \notin stored'
        BY <2>1, <2>2, <2>11 DEF Rotation
      <3>2. ASSUME NEW t \in stored', NEW n \in Issued', issued'[n].session = issued'[t].session
            PROVE  n <= t
        <4>1. CASE t \in stored /\ n \in Issued
          BY <2>1, <2>2, <3>2, <4>1 DEF Rotation
        <4>2. CASE t \in stored /\ n = new
          BY <2>1, <2>2, <2>3, <2>8, <3>2, <4>2
        <4>3. CASE t = new
          BY <1>0, <2>1, <4>3, Domains
        <4> QED  BY <2>1, <2>2, <4>1, <4>2, <4>3
      <3> QED  BY <2>2, <3>1, <3>2 DEF Rotation
    <2> QED  BY <2>12, <2>13, <2>14
  <1>4. ASSUME NEW t \in Issued, Logout(t) PROVE Sessions'
    <2>1. stored' = stored \ {t} /\ UNCHANGED <<issued, spent, pc, arg>>
      BY <1>4 DEF Logout, locals
    <2>2. Issued' = Issued /\ \A r \in Requests : Renewing(r)' = Renewing(r) /\ Session(r)' = Session(r)
      BY <2>1 DEF Issued, Renewing, Session
    <2>3. TokenSpentOnce' /\ Rotation' /\ OneCredential'
      BY <2>1, <2>2 DEF TokenSpentOnce, Rotation, OneCredential
    <2>4. LogoutEndsSession'
      <3>1. CASE Outdated(t)
        BY <1>4, <2>1, <2>2, <3>1 DEF Logout, LogoutEndsSession
      <3>2. CASE ~Outdated(t)
        <4>1. loggedOut' = loggedOut \cup {issued[t].session}
          BY <1>4, <3>2 DEF Logout
        <4>2. \A n \in stored' : issued[n].session # issued[t].session
          <5> SUFFICES ASSUME NEW n \in stored, n # t, issued[n].session = issued[t].session PROVE FALSE
            BY <2>1
          <5>1. n \in Issued /\ t <= n
            BY <1>0 DEF Rotation, TableTypes
          <5>2. n > t
            BY <1>0, <5>1, Domains
          <5> QED  BY <3>2, <5>1, <5>2 DEF Outdated
        <4>3. \A r \in Requests : Renewing(r) => Session(r) # issued[t].session
          BY <3>2 DEF Outdated
        <4> QED  BY <2>1, <2>2, <4>1, <4>2, <4>3 DEF LogoutEndsSession
      <3> QED  BY <3>1, <3>2
    <2> QED  BY <2>3, <2>4
  <1>5. ASSUME UNCHANGED authVars PROVE Sessions'
    BY <1>1, <1>5 DEF authVars, tokens, locals, Renewing, Issued
  <1>6. ASSUME NEW r \in Requests, NEW a, NEW step \in {"createUser", "ensureRows", "deleteToken"}, NEW u,
               Begin(r, step, a, u), UNCHANGED <<issued, stored, spent, loggedOut>>
        PROVE  Sessions'
    BY <1>0, <1>1, <1>6 DEF Begin, Renewing, LocalTypes, Issued
  <1>7. ASSUME NEW r \in Requests,
               \/ CreateUser(r) \/ EnsureProfileAndMetrics(r) \/ EnsureFails(r) \/ ReadProfile(r)
               \/ RequestFails(r)
        PROVE  Sessions'
    <2>1. pc[r] = "ensureRows" => arg[r] \notin Issued
      BY <1>0, Domains DEF RequestSteps
    <2>2. pc[r] = "readProfile" => Renewing(r)
      BY <1>0 DEF LocalTypes, Renewing
    <2>3. UNCHANGED <<issued, stored, spent, loggedOut>>
      BY <1>7 DEF CreateUser, EnsureProfileAndMetrics, EnsureFails, ReadProfile, RequestFails, tokens
    <2>4. \A q \in Requests : Renewing(q)' => Renewing(q) /\ arg'[q] = arg[q]
      BY <1>0, <1>7, <2>1, <2>2, <2>3
      DEF CreateUser, EnsureProfileAndMetrics, EnsureFails, ReadProfile, RequestFails, Goto, Finish,
          Renewing, LocalTypes, Issued
    <2> QED  BY <1>1, <2>3, <2>4
  <1>8. ASSUME NEW t \in Issued, Expire(t) PROVE Sessions'
    BY <1>1, <1>8 DEF Expire, locals, Renewing, Issued
  <1> QED
    BY <1>2, <1>3, <1>4, <1>5, <1>6, <1>7, <1>8
    DEF AuthNext, Register, LoginWithEmail, LoginWithOAuth, FindToken, tables, tokens

----------------------------------------------------------------------------
AuthInv == /\ AuthTypeOK /\ RequestSteps /\ TokenHolderComplete
           /\ OneAccountPerEmail /\ Sessions

(* The inductive invariant of AuthTokens.                                  *)
THEOREM AuthInvariant == AuthSpec => []AuthInv
  <1>1. AuthInit => AuthInv
    <2> SUFFICES ASSUME AuthInit PROVE AuthInv
      OBVIOUS
    <2>1. AuthTypeOK /\ DOMAIN users = {} /\ DOMAIN issued = {} /\ DOMAIN spent = {}
      BY AuthTypeInit DEF AuthInit
    <2> QED
      BY <2>1 DEF AuthInit, AuthInv, RequestSteps, TokenHolderComplete, OneAccountPerEmail, Sessions,
                  TokenSpentOnce, Rotation, OneCredential, LogoutEndsSession, Renewing, UserIds, Issued
  <1>2. AuthInv /\ [AuthNext]_authVars => AuthInv'
    BY AuthTypeStep, StepsStep, AccountsStep, SessionsStep DEF AuthInv
  <1> QED  BY <1>1, <1>2, PTL DEF AuthSpec

(* The type invariant of AuthTokens.                                       *)
THEOREM AuthTypeCorrect == AuthSpec => []AuthTypeOK
  <1>1. AuthInv => AuthTypeOK
    BY DEF AuthInv
  <1> QED  BY <1>1, AuthInvariant, PTL

(* No address and no Google subject ever has two accounts.                 *)
THEOREM AccountsUnique == AuthSpec => []OneAccountPerEmail
  <1>1. AuthInv => OneAccountPerEmail
    BY DEF AuthInv
  <1> QED  BY <1>1, AuthInvariant, PTL

(* However many refreshes present a token at once, one gets past the delete. *)
THEOREM TokensSpentOnce == AuthSpec => []TokenSpentOnce
  <1>1. AuthInv => TokenSpentOnce
    BY DEF AuthInv, Sessions
  <1> QED  BY <1>1, AuthInvariant, PTL

(* A session has one live token or one refresh under way, never both.      *)
THEOREM SessionsSingle == AuthSpec => []OneCredential
  <1>1. AuthInv => OneCredential
    BY DEF AuthInv, Sessions
  <1> QED  BY <1>1, AuthInvariant, PTL

(* Whoever holds a live token has a profile and a metrics row.             *)
THEOREM HoldersComplete == AuthSpec => []TokenHolderComplete
  <1>1. AuthInv => TokenHolderComplete
    BY DEF AuthInv
  <1> QED  BY <1>1, AuthInvariant, PTL

(* A session logged out of before any refresh deleted its token stays ended. *)
THEOREM LogoutHolds == AuthSpec => []LogoutEndsSession
  <1>1. AuthInv => LogoutEndsSession
    BY DEF AuthInv, Sessions
  <1> QED  BY <1>1, AuthInvariant, PTL
=============================================================================
