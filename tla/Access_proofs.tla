---------------------------- MODULE Access_proofs ----------------------------
(***************************************************************************)
(* For any number of accounts, sessions, links and requests running at     *)
(* once, with Redis up or down: the tables keep their types, and no ADMIN  *)
(* acts with a permission that no accepted list gave.                      *)
(***************************************************************************)
EXTENDS Access, TLAPS

(***************************************************************************)
(* The inductive invariant.  What is in the tables depends on what the     *)
(* requests carry from one step to the next: a step that writes for an     *)
(* account has one, a list that waits to be given was asked for by a       *)
(* SUPER_ADMIN, and what was read from the table or the cache for an ADMIN *)
(* was there.                                                              *)
(***************************************************************************)
TokenSteps == {"rotate", "consume", "revokeFamily"}
LinkSteps  == {"resetTx", "activateTx"}

\* What a step needs of the row it starts from.
Ready(step, q) ==
  /\ step \in Steps
  /\ step \in TokenSteps => q.token \in Tokens
  /\ step \in LinkSteps => q.link \in Links
  /\ step \notin {"idle", "inside"} => q.account \in Accounts

Given(a, permissions) == RoleOf[a] = "ADMIN" => permissions \subseteq givable

GoodRow(q) ==
  /\ q \in RequestRows
  /\ Ready(q.next, q)
  /\ q.account \in Accounts => Given(q.account, q.permissions)
  /\ q.wanted \in Lists \union {{}}

RequestsOK ==
  /\ requests \in [Requests -> RequestRows]
  /\ \A r \in Requests : GoodRow(requests[r])
  /\ calls \in Nat

PermissionsOK ==
  /\ override \in [Accounts -> OverrideRows]
  /\ cache \in [Accounts -> CacheRows]
  /\ redis \in BOOLEAN
  /\ \A a \in Accounts : Given(a, override[a].granted) /\ Given(a, cache[a].permissions)

PeopleOK ==
  /\ user \in [Accounts -> UserRows]
  /\ session \in [Tokens -> SessionRows]
  /\ link \in [Links -> LinkRows]
  /\ wrong \in [Accounts -> Nat]
  /\ opened \in [Links -> Nat]
  /\ \A t \in Tokens : session[t].state \in {"live", "revoked"} => session[t].account \in Accounts
  /\ \A l \in Links : link[l].state = "unused" => link[l].account \in Accounts

IInv == RequestsOK /\ PermissionsOK /\ PeopleOK

(***************************************************************************)
(* Permissions                                                             *)
(***************************************************************************)
\* Every role holds permissions of the catalogue.
LEMMA RolePermissions == \A role \in Roles : ROLE_PERMISSIONS[role] \subseteq PERMISSIONS
  BY DEF Roles, ROLE_PERMISSIONS

\* What an account holds is in the catalogue, and an ADMIN was given it.
LEMMA EffectiveIsGiven ==
  ASSUME NEW a \in Accounts, NEW row \in OverrideRows, Given(a, row.granted)
  PROVE  /\ effective(RoleOf[a], row) \subseteq PERMISSIONS
         /\ Given(a, effective(RoleOf[a], row))
<1>1. RoleOf[a] \in Roles
  BY DirectoryAssumption
<1>2. ROLE_PERMISSIONS[RoleOf[a]] \subseteq PERMISSIONS
  BY <1>1, RolePermissions
<1>3. CASE RoleOf[a] = "ADMIN"
  <2>1. ROLE_PERMISSIONS.ADMIN \subseteq PERMISSIONS
    BY <1>2, <1>3
  <2>2. ROLE_PERMISSIONS.ADMIN \subseteq givable
    BY DEF givable
  <2> QED
    BY <1>3, <2>1, <2>2 DEF effective, Given, OverrideRows
<1>4. CASE RoleOf[a] # "ADMIN"
  BY <1>2, <1>4 DEF effective, Given
<1> QED
  BY <1>3, <1>4

\* The rows of a list that is accepted hold nothing else than what may be given.
LEMMA OverridesAreGiven ==
  ASSUME NEW a \in Accounts, NEW list \in Lists \union {{}}, delegable(list)
  PROVE  overridesFor(list) \in OverrideRows /\ Given(a, overridesFor(list).granted)
<1>1. list \subseteq PERMISSIONS
  BY DirectoryAssumption
<1>2. ROLE_PERMISSIONS.ADMIN \subseteq PERMISSIONS
  BY RolePermissions DEF Roles
<1>3. list \subseteq givable
  BY DEF givable
<1> QED
  BY <1>1, <1>2, <1>3 DEF overridesFor, OverrideRows, Given

(***************************************************************************)
(* Requests                                                                *)
(***************************************************************************)
LEMMA NewUserType ==
  ASSUME NEW status \in AccountStates, NEW password \in Nat
  PROVE  NewUser(status, password) \in UserRows
  BY DEF NewUser, UserRows

LEMMA IdleIsGood == GoodRow(Idle)
<1>1. NewUser("ABSENT", 0) \in UserRows
  BY NewUserType DEF AccountStates
<1>2. Idle \in RequestRows
  BY <1>1 DEF Idle, RequestRows, Steps
<1> QED
  BY <1>2, DirectoryAssumption DEF Idle, GoodRow, Ready, Steps, TokenSteps, LinkSteps

\* A request that arrives for an account and carries nothing yet.
LEMMA OnIsGood ==
  ASSUME PeopleOK, NEW a \in Accounts, NEW step \in Steps \ (TokenSteps \union LinkSteps)
  PROVE  GoodRow(On(step, a))
<1>1. On(step, a) \in RequestRows
  BY IdleIsGood DEF GoodRow, On, Idle, RequestRows, PeopleOK
<1>2. /\ On(step, a).next = step /\ On(step, a).account = a
      /\ On(step, a).permissions = {} /\ On(step, a).wanted = {}
  BY DEF On, Idle
<1> QED
  BY <1>1, <1>2 DEF GoodRow, Ready, Given

LEMMA BeginGood ==
  ASSUME RequestsOK, NEW r \in Requests, NEW op, NEW row, GoodRow(row), Begin(r, op, row)
  PROVE  RequestsOK'
  BY DEF RequestsOK, Begin, GoodRow, Ready, Given, givable

LEMMA GoToGood ==
  ASSUME RequestsOK, NEW r \in Requests, NEW step, GoTo(r, step), Ready(step, requests[r])
  PROVE  RequestsOK'
<1>1. requests' = [requests EXCEPT ![r].next = step] /\ calls' = calls
  BY DEF GoTo
<1>2. GoodRow([requests[r] EXCEPT !.next = step])
  BY DEF RequestsOK, GoodRow, Ready, RequestRows
<1> QED
  BY <1>1, <1>2 DEF RequestsOK, GoodRow, Ready, Given, givable

LEMMA FinishGood ==
  ASSUME RequestsOK, NEW r \in Requests, Finish(r)
  PROVE  RequestsOK'
  BY IdleIsGood DEF RequestsOK, Finish, GoodRow, Ready, Given, givable

(***************************************************************************)
(* Tables                                                                  *)
(***************************************************************************)
LEMMA PermissionsKept ==
  ASSUME PermissionsOK, UNCHANGED <<override, cache, redis>>
  PROVE  PermissionsOK'
  BY DEF PermissionsOK, Given, givable

LEMMA PeopleKept ==
  ASSUME PeopleOK, UNCHANGED <<user, session, link, wrong, opened>>
  PROVE  PeopleOK'
  BY DEF PeopleOK

SessionsOK(s) ==
  /\ s \in [Tokens -> SessionRows]
  /\ \A t \in Tokens : s[t].state \in {"live", "revoked"} => s[t].account \in Accounts

LinksOK(l) ==
  /\ l \in [Links -> LinkRows]
  /\ \A k \in Links : l[k].state = "unused" => l[k].account \in Accounts

LEMMA RevokeType ==
  ASSUME PeopleOK, NEW tokens, Revoke(tokens)
  PROVE  SessionsOK(session')
  BY DEF PeopleOK, Revoke, SessionRows, SessionsOK, live

LEMMA IssueRowType ==
  ASSUME PeopleOK, NEW a \in Accounts, NEW family \in Tokens \union {0}, NEW password \in Nat,
         IssueRow(a, family, password)
  PROVE  SessionsOK(session')
<1>1. PICK t \in Tokens : session' = [session EXCEPT ![t] =
         [state |-> "live", expired |-> FALSE, account |-> a, password |-> password,
          family |-> IF family = 0 THEN t ELSE family]]
  BY DEF IssueRow
<1>2. [state |-> "live", expired |-> FALSE, account |-> a, password |-> password,
       family |-> IF family = 0 THEN t ELSE family] \in SessionRows
  BY DEF SessionRows
<1> QED
  BY <1>1, <1>2 DEF PeopleOK, SessionsOK

LEMMA SendLinkType ==
  ASSUME PeopleOK, NEW a \in Accounts, NEW purpose \in {"RESET", "ACTIVATION"},
         SendLink(a, purpose)
  PROVE  LinksOK(link')
<1> DEFINE new == [state |-> "unused", expired |-> FALSE, purpose |-> purpose, account |-> a]
<1>1. PICK l \in Links : link' = [k \in Links |->
         IF k = l THEN new
         ELSE IF k \in unusedLinks(a, purpose) THEN [link[k] EXCEPT !.state = "used"]
         ELSE link[k]]
  BY DEF SendLink
<1>2. new \in LinkRows /\ new.account \in Accounts
  BY DEF LinkRows
<1> HIDE DEF new
<1>3. ASSUME NEW k \in Links PROVE [link[k] EXCEPT !.state = "used"] \in LinkRows
  BY <1>3 DEF LinkRows, PeopleOK
<1>4. ASSUME NEW k \in unusedLinks(a, purpose)
      PROVE  k \in Links /\ [link[k] EXCEPT !.state = "used"].account = a
  BY <1>4 DEF unusedLinks, PeopleOK, LinkRows
<1>5. link' \in [Links -> LinkRows]
  BY <1>1, <1>2, <1>3 DEF PeopleOK
<1>6. ASSUME NEW k \in Links, link'[k].state = "unused" PROVE link'[k].account \in Accounts
  BY <1>1, <1>2, <1>4, <1>6 DEF PeopleOK
<1> QED
  BY <1>5, <1>6 DEF LinksOK

\* Arithmetic apart, for the provers that know the other fields.
LEMMA NewPassword ==
  ASSUME NEW row \in UserRows
  PROVE  /\ row.password + 1 \in Nat
         /\ [row EXCEPT !.password = @ + 1] \in UserRows
<1>1. row.password + 1 \in Nat
  BY DEF UserRows
<1> DEFINE next == row.password + 1
<1>2. next \in Nat
  BY <1>1
<1> HIDE DEF next
<1>3. [row EXCEPT !.password = next] \in UserRows
  BY <1>2, Zenon DEF UserRows
<1> QED
  BY <1>1, <1>3 DEF next

LEMMA ChoosePasswordType ==
  ASSUME PeopleOK, NEW a \in Accounts, NEW row \in UserRows, ChoosePassword(a, row)
  PROVE  user' \in [Accounts -> UserRows] /\ wrong' \in [Accounts -> Nat]
<1> DEFINE first == [row EXCEPT !.password = @ + 1]
           new == [first EXCEPT !.temporary = FALSE, !.failures = 0, !.locked = FALSE]
<1>1. first \in UserRows
  BY NewPassword
<1> HIDE DEF first
<1>2. new \in UserRows
  BY <1>1, Zenon DEF UserRows
<1>3. user' = [user EXCEPT ![a] = new] /\ wrong' = [wrong EXCEPT ![a] = 0]
  BY DEF ChoosePassword, first, UserRows
<1> QED
  BY <1>2, <1>3 DEF PeopleOK

LEMMA PeopleFrom ==
  ASSUME PeopleOK, user' \in [Accounts -> UserRows], wrong' \in [Accounts -> Nat],
         SessionsOK(session'), LinksOK(link'), opened' \in [Links -> Nat]
  PROVE  PeopleOK'
  BY DEF PeopleOK, SessionsOK, LinksOK

\* The parts of PeopleOK, for the tables a step leaves alone.
LEMMA PeopleParts ==
  ASSUME PeopleOK
  PROVE  /\ user \in [Accounts -> UserRows] /\ wrong \in [Accounts -> Nat]
         /\ SessionsOK(session) /\ LinksOK(link) /\ opened \in [Links -> Nat]
  BY DEF PeopleOK, SessionsOK, LinksOK

\* What a request at work has in hand.
LEMMA InHand ==
  ASSUME RequestsOK, NEW r \in Requests, ~ At(r, "idle"), ~ At(r, "inside")
  PROVE  /\ requests[r].account \in Accounts /\ requests[r].seen \in UserRows
         /\ requests[r].next \in TokenSteps => requests[r].token \in Tokens
         /\ requests[r].next \in LinkSteps => requests[r].link \in Links
         /\ Given(requests[r].account, requests[r].permissions)
         /\ requests[r].permissions \subseteq PERMISSIONS
         /\ requests[r].wanted \in Lists \union {{}}
  BY DEF RequestsOK, GoodRow, Ready, At, RequestRows

(***************************************************************************)
(* Sessions.  No step of them touches the permissions.                     *)
(***************************************************************************)
\* A request that arrives and writes nothing.
LEMMA SessionsBegin ==
  ASSUME IInv, NEW r \in Requests, NEW a \in Accounts,
         Register(r, a) \/ Login(r, a) \/ ChangePassword(r, a)
  PROVE  IInv'
<1>1. ASSUME NEW step \in {"registerTx", "compare", "changeTx"} PROVE GoodRow(On(step, a))
  <2>1. step \in Steps \ (TokenSteps \union LinkSteps)
    BY <1>1 DEF Steps, TokenSteps, LinkSteps
  <2> QED
    BY <2>1, OnIsGood DEF IInv
<1>2. RequestsOK'
  BY <1>1, BeginGood DEF IInv, Register, Login, ChangePassword
<1>3. UNCHANGED tables
  BY DEF Register, Login, ChangePassword
<1> QED
  BY <1>2, <1>3, PermissionsKept, PeopleKept DEF IInv, tables

\* One that ends as it arrives, having sent a link or closed sessions.
LEMMA SessionsAtOnce ==
  ASSUME IInv, NEW r \in Requests, NEW a \in Accounts,
         \/ ForgotPassword(r, a)
         \/ \E tokens \in SUBSET Tokens : Logout(r, a, tokens)
         \/ \E t \in Tokens : RevokeSession(r, a, t)
  PROVE  IInv'
<1>1. GoodRow(On("offline", a)) /\ GoodRow(Idle)
  BY OnIsGood, IdleIsGood DEF IInv, Steps, TokenSteps, LinkSteps
<1>2. RequestsOK'
  BY <1>1, BeginGood DEF IInv, ForgotPassword, Logout, RevokeSession
<1>3. PermissionsOK'
  BY PermissionsKept DEF IInv, ForgotPassword, Logout, RevokeSession
<1>4. ASSUME ForgotPassword(r, a) PROVE PeopleOK'
  <2>1. LinksOK(link')
    BY <1>4, SendLinkType DEF IInv, ForgotPassword
  <2> QED
    BY <1>4, <2>1, PeopleParts, PeopleFrom DEF IInv, ForgotPassword
<1>5. ASSUME \/ \E tokens \in SUBSET Tokens : Logout(r, a, tokens)
             \/ \E t \in Tokens : RevokeSession(r, a, t)
      PROVE  PeopleOK'
  <2>1. SessionsOK(session')
    BY <1>5, RevokeType DEF IInv, Logout, RevokeSession
  <2> QED
    BY <1>5, <2>1, PeopleParts, PeopleFrom DEF IInv, Logout, RevokeSession
<1> QED
  BY <1>2, <1>3, <1>4, <1>5 DEF IInv

\* One that shows a token or a link.
LEMMA ShownIsGood ==
  ASSUME PeopleOK, NEW a \in Accounts,
         NEW row \in {[On("rotate", a) EXCEPT !.token = t] : t \in Tokens}
           \union {[On("revokeFamily", a) EXCEPT !.token = t] : t \in Tokens}
           \union {[On("resetTx", a) EXCEPT !.link = l] : l \in Links}
           \union {[On("activateTx", a) EXCEPT !.link = l] : l \in Links}
  PROVE  GoodRow(row)
<1>1. ASSUME NEW step \in Steps PROVE On(step, a) \in RequestRows
  BY <1>1, IdleIsGood DEF GoodRow, On, Idle, RequestRows, PeopleOK
<1>2. ASSUME NEW step \in Steps
      PROVE  /\ On(step, a).next = step /\ On(step, a).account = a
             /\ On(step, a).permissions = {} /\ On(step, a).wanted = {}
  BY DEF On, Idle
<1>3. {"rotate", "revokeFamily", "resetTx", "activateTx"} \subseteq Steps
  BY DEF Steps
<1>4. ASSUME NEW step \in {"rotate", "revokeFamily"}, NEW t \in Tokens
      PROVE  GoodRow([On(step, a) EXCEPT !.token = t])
  <2> DEFINE q == [On(step, a) EXCEPT !.token = t]
  <2>1. On(step, a) \in RequestRows
    BY <1>1, <1>3
  <2>2. /\ q \in RequestRows /\ q.token = t /\ q.account = a /\ q.next = step
        /\ q.permissions = {} /\ q.wanted = {}
    BY <2>1, <1>2, <1>3 DEF RequestRows
  <2> QED
    BY <2>2, <1>3 DEF GoodRow, Ready, LinkSteps, Given
<1>5. ASSUME NEW step \in {"resetTx", "activateTx"}, NEW l \in Links
      PROVE  GoodRow([On(step, a) EXCEPT !.link = l])
  <2> DEFINE q == [On(step, a) EXCEPT !.link = l]
  <2>1. On(step, a) \in RequestRows
    BY <1>1, <1>3
  <2>2. /\ q \in RequestRows /\ q.link = l /\ q.account = a /\ q.next = step
        /\ q.permissions = {} /\ q.wanted = {}
    BY <2>1, <1>2, <1>3 DEF RequestRows
  <2> QED
    BY <2>2, <1>3 DEF GoodRow, Ready, TokenSteps, Given
<1> QED
  BY <1>4, <1>5

LEMMA Shown ==
  ASSUME IInv, NEW r \in Requests,
         \/ \E t \in Tokens : Refresh(r, t)
         \/ \E l \in Links : ResetPassword(r, l) \/ Activate(r, l)
  PROVE  IInv'
<1>1. ASSUME NEW t \in Tokens, Refresh(r, t) PROVE RequestsOK'
  <2>1. session[t].account \in Accounts
    BY <1>1 DEF Refresh, IInv, PeopleOK
  <2> QED
    BY <1>1, <2>1, ShownIsGood, BeginGood DEF IInv, Refresh
<1>2. ASSUME NEW l \in Links, ResetPassword(r, l) \/ Activate(r, l) PROVE RequestsOK'
  <2>1. link[l].account \in Accounts
    BY <1>2 DEF ResetPassword, Activate, Usable, IInv, PeopleOK
  <2> QED
    BY <1>2, <2>1, ShownIsGood, BeginGood DEF IInv, ResetPassword, Activate
<1>3. UNCHANGED tables
  BY DEF Refresh, ResetPassword, Activate
<1> QED
  BY <1>1, <1>2, <1>3, PermissionsKept, PeopleKept DEF IInv, tables

\* The password of the account, before its sessions.
LEMMA AccountSteps ==
  ASSUME IInv, NEW r \in Requests,
         \/ RegisterTx(r) \/ LoginFails(r) \/ LoginSucceeds(r) \/ MarkLogin(r)
         \/ Offline(r) \/ ChangeTx(r)
  PROVE  IInv'
<1> DEFINE a == requests[r].account
<1>1. a \in Accounts /\ requests[r].seen \in UserRows
  BY InHand DEF IInv, At, RegisterTx, LoginFails, LoginSucceeds, MarkLogin, Offline, ChangeTx
<1>2. RequestsOK'
  <2>1. Ready("issue", requests[r]) /\ Ready("revokeAll", requests[r])
    BY <1>1 DEF Ready, Steps, TokenSteps, LinkSteps
  <2> QED
    BY <2>1, GoToGood, FinishGood
       DEF IInv, RegisterTx, LoginFails, LoginSucceeds, MarkLogin, Offline, ChangeTx
<1>3. PermissionsOK'
  BY PermissionsKept
     DEF IInv, tables, RegisterTx, LoginFails, LoginSucceeds, MarkLogin, Offline, ChangeTx
<1>4. user \in [Accounts -> UserRows] /\ wrong \in [Accounts -> Nat] /\ user[a] \in UserRows
  BY <1>1 DEF IInv, PeopleOK
<1>5. user' \in [Accounts -> UserRows]
  <2>1. CASE RegisterTx(r)
    <3>1. NewUser("ACTIVE", 1) \in UserRows
      BY NewUserType DEF AccountStates
    <3> QED
      BY <2>1, <3>1, <1>4 DEF RegisterTx
  <2>2. CASE LoginFails(r)
    <3> DEFINE attempts == requests[r].seen.failures + 1
               full == attempts >= MaxAttempts
               row == [user[a] EXCEPT !.failures = attempts, !.locked = full]
    <3>1. attempts \in Nat
      BY <1>1 DEF UserRows
    <3>2. full \in BOOLEAN
      BY <3>1, DirectoryAssumption
    <3> HIDE DEF attempts, full
    <3>3. row \in UserRows
      BY <3>1, <3>2, <1>4, Zenon DEF UserRows
    <3>4. user' = [user EXCEPT ![a] = row]
      BY <2>2, <1>1, <1>4 DEF LoginFails, attempts, full, UserRows
    <3> QED
      BY <3>3, <3>4, <1>4
  <2>3. CASE LoginSucceeds(r)
    BY <2>3, <1>4 DEF LoginSucceeds, tables
  <2>4. CASE MarkLogin(r)
    <3> DEFINE row == [user[a] EXCEPT !.failures = 0, !.locked = FALSE]
    <3>1. row \in UserRows
      BY <1>4, Zenon DEF UserRows
    <3>2. user' = [user EXCEPT ![a] = row]
      BY <2>4, <1>1, <1>4 DEF MarkLogin, UserRows
    <3> QED
      BY <3>1, <3>2, <1>4
  <2>5. CASE Offline(r)
    BY <2>5, <1>4 DEF Offline, UserRows
  <2>6. CASE ChangeTx(r)
    <3> DEFINE first == [user[a] EXCEPT !.password = @ + 1]
    <3>1. first \in UserRows
      BY <1>4, NewPassword
    <3>2. user' = [user EXCEPT ![a] = [first EXCEPT !.temporary = FALSE]]
      BY <2>6, <1>1, <1>4 DEF ChangeTx, UserRows
    <3> HIDE DEF first
    <3>3. [first EXCEPT !.temporary = FALSE] \in UserRows
      BY <3>1, Zenon DEF UserRows
    <3> QED
      BY <3>2, <3>3, <1>4
  <2> QED
    BY <2>1, <2>2, <2>3, <2>4, <2>5, <2>6
<1>6. wrong' \in [Accounts -> Nat]
  <2>1. wrong' \in {wrong, [wrong EXCEPT ![a] = 0], [wrong EXCEPT ![a] = @ + 1]}
    BY DEF tables, RegisterTx, LoginFails, LoginSucceeds, MarkLogin, Offline, ChangeTx
  <2>2. wrong[a] + 1 \in Nat
    BY <1>1, <1>4
  <2> QED
    BY <2>1, <2>2, <1>1, <1>4
<1>7. UNCHANGED <<session, link, opened>>
  BY DEF tables, RegisterTx, LoginFails, LoginSucceeds, MarkLogin, Offline, ChangeTx
<1> QED
  BY <1>2, <1>3, <1>5, <1>6, <1>7, PeopleParts, PeopleFrom DEF IInv

\* A session that opens, or closes.
LEMMA SessionSteps ==
  ASSUME IInv, NEW r \in Requests,
         \/ Issue(r) \/ IssueActivated(r) \/ Rotate(r)
         \/ RevokeFamily(r) \/ Consume(r) \/ RevokeAll(r) \/ RemoveRevoke(r)
  PROVE  IInv'
<1> DEFINE a == requests[r].account
           t == requests[r].token
<1>1. /\ a \in Accounts /\ requests[r].seen \in UserRows
      /\ requests[r].next \in TokenSteps => t \in Tokens
  BY InHand DEF IInv, At, Issue, IssueActivated, Rotate, RevokeFamily, Consume, RevokeAll,
                RemoveRevoke
<1>2. requests[r].seen.password \in Nat
  BY <1>1 DEF UserRows
<1>3. RequestsOK'
  <2>1. Ready("markLogin", requests[r]) /\ Ready("invalidate", requests[r])
    BY <1>1 DEF Ready, Steps, TokenSteps, LinkSteps
  <2>2. Rotate(r) => Ready("consume", requests[r])
    BY <1>1 DEF Rotate, At, Ready, Steps, TokenSteps, LinkSteps
  <2> QED
    BY <2>1, <2>2, GoToGood, FinishGood
       DEF IInv, Issue, IssueActivated, Rotate, RevokeFamily, Consume, RevokeAll, RemoveRevoke
<1>4. PermissionsOK'
  BY PermissionsKept
     DEF IInv, Issue, IssueActivated, Rotate, RevokeFamily, Consume, RevokeAll, RemoveRevoke
<1>5. SessionsOK(session')
  <2>1. CASE Issue(r) \/ IssueActivated(r)
    BY <2>1, <1>1, <1>2, IssueRowType DEF IInv, Issue, IssueActivated
  <2>2. CASE Rotate(r)
    <3>1. t \in Tokens
      BY <2>2, <1>1 DEF Rotate, At, TokenSteps
    <3>2. session[t].family \in Tokens \union {0} /\ session[t].password \in Nat
      BY <3>1 DEF IInv, PeopleOK, SessionRows
    <3> QED
      BY <2>2, <1>1, <3>2, IssueRowType DEF IInv, Rotate
  <2>3. CASE RevokeFamily(r) \/ Consume(r) \/ RevokeAll(r) \/ RemoveRevoke(r)
    BY <2>3, RevokeType DEF IInv, RevokeFamily, Consume, RevokeAll, RemoveRevoke
  <2> QED
    BY <2>1, <2>2, <2>3
<1>6. UNCHANGED <<user, link, wrong, opened>>
  BY DEF Issue, IssueActivated, Rotate, RevokeFamily, Consume, RevokeAll, RemoveRevoke
<1> QED
  BY <1>3, <1>4, <1>5, <1>6, PeopleParts, PeopleFrom DEF IInv

\* A link that opens.
LEMMA LinkTransactions ==
  ASSUME IInv, NEW r \in Requests, ResetTx(r) \/ ActivateTx(r)
  PROVE  IInv'
<1> DEFINE a == requests[r].account
           l == requests[r].link
<1>1. a \in Accounts /\ requests[r].seen \in UserRows /\ l \in Links
  BY InHand DEF IInv, At, ResetTx, ActivateTx, LinkSteps
<1>2. user[a] \in UserRows
  BY <1>1 DEF IInv, PeopleOK
<1>3. CASE ResetTx(r)
  <2>1. RequestsOK'
    <3>1. Ready("revokeAll", requests[r])
      BY <1>1 DEF Ready, Steps, TokenSteps, LinkSteps
    <3> QED
      BY <1>3, <3>1, GoToGood DEF IInv, ResetTx
  <2>2. user' \in [Accounts -> UserRows] /\ wrong' \in [Accounts -> Nat]
    BY <1>3, <1>1, <1>2, ChoosePasswordType DEF IInv, ResetTx
  <2>3. LinksOK(link')
    BY <1>3 DEF ResetTx, IInv, PeopleOK, LinksOK, LinkRows, unusedLinks
  <2>4. opened' \in [Links -> Nat]
    BY <1>3, <1>1 DEF ResetTx, IInv, PeopleOK
  <2>5. UNCHANGED <<session, override, cache, redis>>
    BY <1>3 DEF ResetTx
  <2> QED
    BY <2>1, <2>2, <2>3, <2>4, <2>5, PermissionsKept, PeopleParts, PeopleFrom DEF IInv
<1>4. CASE ActivateTx(r)
  <2> DEFINE chosen == user[a].password + 1
             row == [user[a] EXCEPT !.status = "ACTIVE", !.activated = chosen]
             q == [requests[r] EXCEPT !.next = "issueActivated", !.seen.password = chosen]
  <2>1. chosen \in Nat
    BY <1>2, NewPassword
  <2>2. row \in UserRows
    <3> HIDE DEF chosen
    <3> QED
      BY <1>2, <2>1, Zenon DEF UserRows, AccountStates
  <2>3. user' \in [Accounts -> UserRows] /\ wrong' \in [Accounts -> Nat]
    BY <1>4, <1>1, <2>2, ChoosePasswordType DEF IInv, ActivateTx
  <2>4. LinksOK(link')
    BY <1>4, <1>1 DEF ActivateTx, At, IInv, PeopleOK, LinksOK, LinkRows
  <2>5. opened' \in [Links -> Nat]
    BY <1>4, <1>1 DEF ActivateTx, IInv, PeopleOK
  <2>6. UNCHANGED <<session, override, cache, redis>>
    BY <1>4 DEF ActivateTx
  <2>7. RequestsOK'
    <3>1. requests[r] \in RequestRows /\ GoodRow(requests[r])
      BY DEF IInv, RequestsOK
    <3>2. requests' = [requests EXCEPT ![r] = q] /\ calls' = calls
      BY <1>4, <3>1 DEF ActivateTx, IInv, RequestsOK, RequestRows
    <3>3. [requests[r].seen EXCEPT !.password = chosen] \in UserRows
      <4> HIDE DEF chosen
      <4> QED
        BY <1>1, <2>1, Zenon DEF UserRows
    <3>4. "issueActivated" \in Steps
      BY DEF Steps
    <3>5. q = [requests[r] EXCEPT !.next = "issueActivated",
                                  !.seen = [requests[r].seen EXCEPT !.password = chosen]]
      BY <3>1 DEF RequestRows
    <3> DEFINE seen == [requests[r].seen EXCEPT !.password = chosen]
    <3>6. GoodRow([requests[r] EXCEPT !.next = "issueActivated", !.seen = seen])
      <4> HIDE DEF seen
      <4>1. seen \in UserRows
        BY <3>3 DEF seen
      <4> QED
        BY <1>1, <3>1, <3>4, <4>1 DEF GoodRow, Ready, RequestRows, TokenSteps, LinkSteps
    <3> QED
      BY <3>2, <3>5, <3>6 DEF IInv, RequestsOK, GoodRow, Ready, Given, givable
  <2> QED
    BY <2>3, <2>4, <2>5, <2>6, <2>7, PermissionsKept, PeopleParts, PeopleFrom DEF IInv
<1> QED
  BY <1>3, <1>4

LEMMA RequestsKept ==
  ASSUME RequestsOK, UNCHANGED <<requests, calls>>
  PROVE  RequestsOK'
  BY DEF RequestsOK, GoodRow, Ready, Given, givable

\* Time.
LEMMA TimePasses ==
  ASSUME IInv,
         \/ PurgeTokens
         \/ \E t \in Tokens : SessionExpires(t)
         \/ \E l \in Links : LinkExpires(l)
         \/ \E a \in Accounts : LockEnds(a)
  PROVE  IInv'
<1>1. RequestsOK' /\ PermissionsOK'
  BY RequestsKept, PermissionsKept DEF IInv, PurgeTokens, SessionExpires, LinkExpires, LockEnds
<1>2. SessionsOK(session')
  <2>1. ASSUME NEW t \in Tokens, session' = [session EXCEPT ![t].state = "purged"]
        PROVE  SessionsOK(session')
    BY <2>1 DEF IInv, PeopleOK, SessionRows, SessionsOK
  <2>2. ASSUME NEW t \in Tokens, SessionExpires(t) PROVE SessionsOK(session')
    BY <2>2 DEF SessionExpires, IInv, PeopleOK, SessionRows, SessionsOK
  <2>3. ASSUME UNCHANGED session PROVE SessionsOK(session')
    BY <2>3 DEF IInv, PeopleOK, SessionsOK
  <2> QED
    BY <2>1, <2>2, <2>3 DEF PurgeTokens, LinkExpires, LockEnds
<1>3. LinksOK(link')
  <2>1. ASSUME NEW l \in Links, LinkExpires(l) PROVE LinksOK(link')
    BY <2>1 DEF LinkExpires, IInv, PeopleOK, LinkRows, LinksOK
  <2>2. ASSUME UNCHANGED link PROVE LinksOK(link')
    BY <2>2 DEF IInv, PeopleOK, LinksOK
  <2> QED
    BY <2>1, <2>2 DEF PurgeTokens, SessionExpires, LockEnds
<1>4. user' \in [Accounts -> UserRows]
  <2>1. ASSUME NEW a \in Accounts, LockEnds(a) PROVE user' \in [Accounts -> UserRows]
    <3>1. user[a] \in UserRows
      BY DEF IInv, PeopleOK
    <3>2. [user[a] EXCEPT !.locked = FALSE] \in UserRows
      BY <3>1, Zenon DEF UserRows
    <3>3. user' = [user EXCEPT ![a] = [user[a] EXCEPT !.locked = FALSE]]
      BY <2>1, <3>1 DEF LockEnds, UserRows
    <3> QED
      BY <3>2, <3>3 DEF IInv, PeopleOK
  <2>2. ASSUME UNCHANGED user PROVE user' \in [Accounts -> UserRows]
    BY <2>2 DEF IInv, PeopleOK
  <2> QED
    BY <2>1, <2>2 DEF PurgeTokens, SessionExpires, LinkExpires
<1>5. wrong' = wrong /\ opened' = opened
  BY DEF PurgeTokens, SessionExpires, LinkExpires, LockEnds
<1> QED
  BY <1>1, <1>2, <1>3, <1>4, <1>5, PeopleParts, PeopleFrom DEF IInv

(***************************************************************************)
(* Staff                                                                   *)
(***************************************************************************)
\* A request that carries a list.
LEMMA AskedIsGood ==
  ASSUME PeopleOK, NEW a \in Accounts, NEW step \in {"grantTx", "cacheGet"}, NEW list \in Lists
  PROVE  GoodRow([On(step, a) EXCEPT !.wanted = list])
<1> DEFINE q == [On(step, a) EXCEPT !.wanted = list]
<1>1. step \in Steps \ (TokenSteps \union LinkSteps)
  BY DEF Steps, TokenSteps, LinkSteps
<1>2. On(step, a) \in RequestRows /\ list \subseteq PERMISSIONS
  BY <1>1, OnIsGood, DirectoryAssumption DEF GoodRow
<1>3. On(step, a).next = step /\ On(step, a).account = a /\ On(step, a).permissions = {}
  BY DEF On, Idle
<1>4. /\ q \in RequestRows /\ q.wanted = list
      /\ q.next = step /\ q.account = a /\ q.permissions = {}
  BY <1>2, <1>3 DEF RequestRows
<1> QED
  BY <1>1, <1>4 DEF GoodRow, Ready, Given

LEMMA OpenAccountStep ==
  ASSUME IInv, NEW r \in Requests, NEW op, NEW a \in Accounts, NEW mode, NEW q, GoodRow(q),
         OpenAccount(r, op, a, mode, q)
  PROVE  IInv'
<1>1. RequestsOK'
  BY BeginGood DEF IInv, OpenAccount
<1>2. user' \in [Accounts -> UserRows]
  <2>1. NewUser("PENDING", 0) \in UserRows /\ NewUser("ACTIVE", 1) \in UserRows
    BY NewUserType DEF AccountStates
  <2>2. [NewUser("ACTIVE", 1) EXCEPT !.temporary = TRUE] \in UserRows
    BY <2>1, Zenon DEF UserRows
  <2> QED
    BY <2>1, <2>2 DEF OpenAccount, IInv, PeopleOK
<1>3. LinksOK(link')
  BY SendLinkType, PeopleParts DEF OpenAccount, IInv
<1>4. UNCHANGED <<session, override, cache, redis, wrong, opened>>
  BY DEF OpenAccount
<1> QED
  BY <1>1, <1>2, <1>3, <1>4, PermissionsKept, PeopleParts, PeopleFrom DEF IInv

LEMMA CreateStep ==
  ASSUME IInv, NEW r \in Requests, NEW a \in Accounts, NEW mode,
         CreateAdmin(r, a, mode) \/ CreateDriver(r, a, mode)
  PROVE  IInv'
<1>1. PeopleOK
  BY DEF IInv
<1> QED
  BY <1>1, IdleIsGood, AskedIsGood, OpenAccountStep DEF CreateAdmin, CreateDriver

\* The row of an account, written by a request that may go on to close its sessions.
LEMMA WriteStatusStep ==
  ASSUME IInv, NEW r \in Requests, NEW op, NEW a \in Accounts, NEW row \in UserRows,
         WriteStatus(r, op, a, row)
  PROVE  IInv'
<1>1. GoodRow(On("revokeAll", a)) /\ GoodRow(Idle)
  BY OnIsGood, IdleIsGood DEF IInv, Steps, TokenSteps, LinkSteps
<1>2. RequestsOK'
  BY <1>1, BeginGood DEF IInv, WriteStatus
<1>3. user' \in [Accounts -> UserRows]
  BY DEF WriteStatus, IInv, PeopleOK
<1>4. UNCHANGED <<session, link, override, cache, redis, wrong, opened>>
  BY DEF WriteStatus
<1> QED
  BY <1>2, <1>3, <1>4, PermissionsKept, PeopleParts, PeopleFrom DEF IInv

LEMMA RowsOfStaff ==
  ASSUME PeopleOK, NEW a \in Accounts, NEW status \in Statuses
  PROVE  /\ [user[a] EXCEPT !.status = status] \in UserRows
         /\ [user[a] EXCEPT !.status = status, !.online = @ /\ status = "ACTIVE"] \in UserRows
<1>1. user[a] \in UserRows
  BY DEF PeopleOK
<1>2. status \in AccountStates
  BY DirectoryAssumption
<1>3. [user[a] EXCEPT !.status = status] \in UserRows
  BY <1>1, <1>2, Zenon DEF UserRows
<1> DEFINE atWork == user[a].online /\ status = "ACTIVE"
<1>4. atWork \in BOOLEAN
  OBVIOUS
<1> HIDE DEF atWork
<1>5. [user[a] EXCEPT !.status = status, !.online = atWork] \in UserRows
  BY <1>1, <1>2, <1>4, Zenon DEF UserRows
<1> QED
  BY <1>3, <1>5 DEF atWork

LEMMA RemovedRow ==
  ASSUME PeopleOK, NEW a \in Accounts
  PROVE  removedRow(a) \in UserRows /\ [user[a] EXCEPT !.online = TRUE] \in UserRows
<1>1. user[a] \in UserRows /\ "INACTIVE" \in AccountStates
  BY DEF PeopleOK, AccountStates
<1> QED
  BY <1>1, Zenon DEF UserRows, removedRow

LEMMA StaffWrites ==
  ASSUME IInv, NEW r \in Requests, NEW a \in Accounts,
         \/ \E status \in Statuses : \/ SetAdminStatus(r, a, status)
                                     \/ SetCustomerStatus(r, a, status)
                                     \/ SetDriverStatus(r, a, status)
         \/ RemoveDriver(r, a)
  PROVE  IInv'
<1>1. PeopleOK
  BY DEF IInv
<1>2. ASSUME NEW status \in Statuses, \/ SetAdminStatus(r, a, status)
                                      \/ SetCustomerStatus(r, a, status)
                                      \/ SetDriverStatus(r, a, status)
      PROVE  IInv'
  BY <1>1, <1>2, RowsOfStaff, WriteStatusStep
     DEF SetAdminStatus, SetCustomerStatus, SetDriverStatus
<1>3. ASSUME RemoveDriver(r, a) PROVE IInv'
  BY <1>1, <1>3, RemovedRow, WriteStatusStep DEF RemoveDriver
<1> QED
  BY <1>2, <1>3

LEMMA SetPermissionsStep ==
  ASSUME IInv, NEW r \in Requests, NEW a \in Accounts, NEW list \in Lists,
         SetPermissions(r, a, list)
  PROVE  IInv'
<1>1. RequestsOK'
  BY AskedIsGood, BeginGood DEF IInv, SetPermissions
<1> QED
  BY <1>1, PermissionsKept, PeopleKept DEF IInv, SetPermissions, tables

LEMMA StaffAtOnce ==
  ASSUME IInv, NEW r \in Requests, NEW a \in Accounts,
         RemoveAdmin(r, a) \/ ResendActivation(r, a) \/ GoOnline(r, a)
  PROVE  IInv'
<1>1. GoodRow(On("removeRevoke", a)) /\ GoodRow(Idle)
  BY OnIsGood, IdleIsGood DEF IInv, Steps, TokenSteps, LinkSteps
<1>2. RequestsOK'
  BY <1>1, BeginGood DEF IInv, RemoveAdmin, ResendActivation, GoOnline
<1>3. user' \in [Accounts -> UserRows]
  <2>1. user' = user \/ user' = [user EXCEPT ![a] = removedRow(a)]
        \/ user' = [user EXCEPT ![a] = [user[a] EXCEPT !.online = TRUE]]
    BY DEF RemoveAdmin, ResendActivation, GoOnline, IInv, PeopleOK
  <2> QED
    BY <2>1, RemovedRow DEF IInv, PeopleOK
<1>4. LinksOK(link')
  BY SendLinkType, PeopleParts DEF IInv, RemoveAdmin, ResendActivation, GoOnline
<1>5. UNCHANGED <<session, override, cache, redis, wrong, opened>>
  BY DEF RemoveAdmin, ResendActivation, GoOnline
<1> QED
  BY <1>2, <1>3, <1>4, <1>5, PermissionsKept, PeopleParts, PeopleFrom DEF IInv

(***************************************************************************)
(* Permissions: the steps that could give one that was never accepted.     *)
(***************************************************************************)
LEMMA GrantStep ==
  ASSUME IInv, NEW r \in Requests, GrantTx(r)
  PROVE  IInv'
<1> DEFINE a == requests[r].account
           list == requests[r].wanted
<1>1. a \in Accounts /\ list \in Lists \union {{}}
  BY InHand DEF IInv, At, GrantTx
<1>2. RequestsOK'
  <2>1. Ready("invalidate", requests[r])
    BY <1>1 DEF Ready, Steps, TokenSteps, LinkSteps
  <2> QED
    BY <2>1, GoToGood, FinishGood DEF IInv, GrantTx
<1>3. PermissionsOK'
  <2>1. CASE override' = override
    BY <2>1 DEF GrantTx, IInv, PermissionsOK, Given, givable
  <2>2. CASE override' = [override EXCEPT ![a] = overridesFor(list)] /\ delegable(list)
    <3>1. overridesFor(list) \in OverrideRows /\ Given(a, overridesFor(list).granted)
      BY <1>1, <2>2, OverridesAreGiven
    <3> QED
      BY <1>1, <2>2, <3>1 DEF GrantTx, IInv, PermissionsOK, Given, givable
  <2> QED
    BY <2>1, <2>2 DEF GrantTx
<1> QED
  BY <1>2, <1>3, PeopleKept DEF IInv, GrantTx

\* A request that reads the permissions of an account, or writes their copy.
LEMMA CacheSteps ==
  ASSUME IInv, NEW r \in Requests,
         CacheGet(r) \/ CacheFill(r) \/ CacheSet(r) \/ Invalidate(r)
  PROVE  IInv'
<1> DEFINE a == requests[r].account
<1>1. /\ a \in Accounts /\ Given(a, requests[r].permissions)
      /\ requests[r].permissions \subseteq PERMISSIONS
  BY InHand DEF IInv, At, CacheGet, CacheFill, CacheSet, Invalidate
<1>2. GoodRow(requests[r]) /\ requests[r] \in RequestRows
  BY DEF IInv, RequestsOK
<1>3. /\ Ready("cacheFill", requests[r]) /\ Ready("cacheSet", requests[r])
      /\ Ready(afterRead(r), requests[r])
  BY <1>1 DEF Ready, Steps, TokenSteps, LinkSteps, afterRead
<1>4. ASSUME NEW held \in SUBSET PERMISSIONS, Given(a, held),
             NEW step \in {"cacheSet", afterRead(r)},
             requests' = [requests EXCEPT ![r].permissions = held, ![r].next = step],
             UNCHANGED calls
      PROVE  RequestsOK'
  <2> DEFINE q == [requests[r] EXCEPT !.permissions = held, !.next = step]
  <2>1. Ready(step, requests[r]) /\ step \in Steps
    BY <1>3 DEF Ready
  <2>2. /\ q \in RequestRows /\ q.permissions = held /\ q.next = step
        /\ q.account = a /\ q.token = requests[r].token /\ q.link = requests[r].link
        /\ q.wanted = requests[r].wanted
    BY <2>1, <1>2 DEF RequestRows
  <2>3. GoodRow(q)
    BY <2>1, <2>2, <1>2, <1>4 DEF GoodRow, Ready
  <2>4. requests' = [requests EXCEPT ![r] = q]
    BY <1>4, <1>2 DEF IInv, RequestsOK, RequestRows
  <2> QED
    BY <2>3, <2>4, <1>4 DEF IInv, RequestsOK, GoodRow, Ready, Given, givable
<1>5. CASE CacheGet(r)
  <2>1. cache[a].permissions \in SUBSET PERMISSIONS /\ Given(a, cache[a].permissions)
    BY <1>1 DEF IInv, PermissionsOK, CacheRows
  <2>2. RequestsOK'
    BY <1>3, <1>4, <1>5, <2>1, GoToGood DEF IInv, CacheGet
  <2> QED
    BY <1>5, <2>2, PermissionsKept, PeopleKept DEF IInv, CacheGet, tables
<1>6. CASE CacheFill(r)
  <2>1. /\ effective(RoleOf[a], override[a]) \in SUBSET PERMISSIONS
        /\ Given(a, effective(RoleOf[a], override[a]))
    BY <1>1, EffectiveIsGiven DEF IInv, PermissionsOK
  <2>2. RequestsOK'
    BY <1>4, <1>6, <2>1 DEF CacheFill
  <2> QED
    BY <1>6, <2>2, PermissionsKept, PeopleKept DEF IInv, CacheFill, tables
<1>7. CASE CacheSet(r) \/ Invalidate(r)
  <2>1. RequestsOK'
    BY <1>3, <1>7, GoToGood, FinishGood DEF IInv, CacheSet, Invalidate
  <2> DEFINE copy == [held |-> TRUE, permissions |-> requests[r].permissions]
  <2>2. copy \in CacheRows /\ Given(a, copy.permissions)
    BY <1>1 DEF CacheRows
  <2>3. Miss \in CacheRows /\ Given(a, Miss.permissions)
    BY DEF Miss, CacheRows, Given
  <2>4. cache' \in {cache, [cache EXCEPT ![a] = copy], [cache EXCEPT ![a] = Miss]}
    BY <1>7 DEF CacheSet, Invalidate
  <2>5. PermissionsOK'
    <3> HIDE DEF copy
    <3> QED
      BY <1>1, <1>7, <2>2, <2>3, <2>4
         DEF CacheSet, Invalidate, IInv, PermissionsOK, Given, givable
  <2> QED
    BY <1>7, <2>1, <2>5, PeopleKept DEF IInv, CacheSet, Invalidate
<1> QED
  BY <1>5, <1>6, <1>7

LEMMA RedisSteps ==
  ASSUME IInv, (\E a \in Accounts : CacheExpires(a)) \/ RedisFails \/ RedisReturns
  PROVE  IInv'
<1>1. RequestsOK' /\ PeopleOK'
  BY RequestsKept, PeopleKept DEF IInv, CacheExpires, RedisFails, RedisReturns
<1>2. \A a \in Accounts : Miss \in CacheRows /\ Given(a, Miss.permissions)
  BY DEF Miss, CacheRows, Given
<1>3. PermissionsOK'
  BY <1>2 DEF IInv, CacheExpires, RedisFails, RedisReturns, PermissionsOK, Given, givable
<1> QED
  BY <1>1, <1>3 DEF IInv

(***************************************************************************)
(* The way in                                                              *)
(***************************************************************************)
LEMMA KnockStep ==
  ASSUME IInv, NEW r \in Requests, NEW a \in Accounts, NEW route \in Doors, Knock(r, a, route)
  PROVE  IInv'
<1>1. route \in AllRoutes
  BY GateAssumption
<1>2. Idle \in RequestRows
  BY IdleIsGood DEF GoodRow
<1> DEFINE p == [Idle EXCEPT !.next = "inside", !.route = route]
           q == [Idle EXCEPT !.next = "validate", !.account = a, !.route = route]
<1>3. p \in RequestRows /\ q \in RequestRows
  BY <1>1, <1>2 DEF RequestRows, Steps
<1>4. /\ p.next = "inside" /\ p.account = NoAccount /\ p.wanted = {}
      /\ q.next = "validate" /\ q.account = a /\ q.wanted = {} /\ q.permissions = {}
  BY DEF Idle
<1>5. GoodRow(p) /\ GoodRow(q)
  <2> HIDE DEF p, q
  <2> QED
    BY <1>3, <1>4, DirectoryAssumption DEF GoodRow, Ready, Steps, TokenSteps, LinkSteps, Given
<1>6. RequestsOK'
  BY <1>5, BeginGood DEF IInv, Knock
<1> QED
  BY <1>6, PermissionsKept, PeopleKept DEF IInv, Knock, tables

LEMMA ValidateStep ==
  ASSUME IInv, NEW r \in Requests, Validate(r)
  PROVE  IInv'
<1> DEFINE a == requests[r].account
           held == IF RoleOf[a] = "SUPER_ADMIN" THEN PERMISSIONS ELSE {}
           step == IF RoleOf[a] = "ADMIN" THEN "cacheGet" ELSE "guards"
           p == [requests[r] EXCEPT !.seen = user[a], !.permissions = held, !.next = step]
           q == [requests[r] EXCEPT !.next = "inside", !.account = NoAccount]
<1>1. a \in Accounts /\ user[a] \in UserRows
  BY InHand DEF IInv, At, Validate, PeopleOK
<1>2. GoodRow(requests[r]) /\ requests[r] \in RequestRows
  BY DEF IInv, RequestsOK
<1>3. held \in SUBSET PERMISSIONS /\ Given(a, held)
  BY DEF Given
<1>4. step \in {"cacheGet", "guards"} /\ step \in Steps /\ "inside" \in Steps
  BY DEF Steps
<1> HIDE DEF held, step
<1>5. GoodRow(p)
  BY <1>1, <1>2, <1>3, <1>4 DEF GoodRow, Ready, RequestRows, TokenSteps, LinkSteps
<1>6. GoodRow(q)
  BY <1>2, <1>4, DirectoryAssumption DEF GoodRow, Ready, RequestRows, TokenSteps, LinkSteps
<1>7. \/ requests' = [requests EXCEPT ![r] = p] /\ calls' = calls
      \/ requests' = [requests EXCEPT ![r] = q] /\ calls' = calls
      \/ Finish(r)
  BY <1>2 DEF Validate, IInv, RequestsOK, RequestRows, held, step
<1>8. RequestsOK'
  <2> HIDE DEF p, q
  <2> QED
    BY <1>5, <1>6, <1>7, FinishGood DEF IInv, RequestsOK, GoodRow, Ready, Given, givable
<1> QED
  BY <1>8, PermissionsKept, PeopleKept DEF IInv, Validate, tables

LEMMA DoorSteps ==
  ASSUME IInv, NEW r \in Requests, Guards(r) \/ Leave(r)
  PROVE  IInv'
<1>1. Ready("inside", requests[r])
  BY DEF Ready, Steps, TokenSteps, LinkSteps
<1>2. RequestsOK'
  BY <1>1, GoToGood, FinishGood DEF IInv, Guards, Leave
<1> QED
  BY <1>2, PermissionsKept, PeopleKept DEF IInv, Guards, Leave, tables

(***************************************************************************)
(* The invariant                                                           *)
(***************************************************************************)
LEMMA InitIInv == Init => IInv
<1> SUFFICES ASSUME Init PROVE IInv
  OBVIOUS
<1>1. RequestsOK
  BY IdleIsGood DEF Init, RequestsOK, GoodRow
<1>2. PermissionsOK
  BY DEF Init, PermissionsOK, NoOverride, OverrideRows, Miss, CacheRows, Given
<1>3. \A a \in Accounts : NewUser(Opening[a], 1) \in UserRows
  BY NewUserType, DirectoryAssumption
<1>4. NoSession \in SessionRows /\ NoLink \in LinkRows
  BY DEF NoSession, SessionRows, NoLink, LinkRows
<1>5. PeopleOK
  BY <1>3, <1>4 DEF Init, PeopleOK, NoSession, NoLink
<1> QED
  BY <1>1, <1>2, <1>5 DEF IInv

LEMMA NextIInv == IInv /\ [Next]_vars => IInv'
<1> SUFFICES ASSUME IInv, [Next]_vars PROVE IInv'
  OBVIOUS
<1>1. CASE SessionsNext
  BY <1>1, SessionsBegin, SessionsAtOnce, Shown, AccountSteps, SessionSteps, LinkTransactions,
     TimePasses DEF SessionsNext
<1>2. CASE TeamNext
  BY <1>2, CreateStep, StaffWrites, StaffAtOnce, GrantStep, CacheSteps, SessionSteps,
     SetPermissionsStep DEF TeamNext
<1>3. CASE GateNext
  BY <1>3, KnockStep, ValidateStep, CacheSteps, DoorSteps, RedisSteps DEF GateNext
<1>4. CASE UNCHANGED vars
  BY <1>4, RequestsKept, PermissionsKept, PeopleKept DEF IInv, vars
<1> QED
  BY <1>1, <1>2, <1>3, <1>4 DEF Next

LEMMA AlwaysIInv == Spec => []IInv
  BY InitIInv, NextIInv, PTL DEF Spec

\* The tables of accounts, sessions, links and permissions keep their types,
\* through every handler of src/auth, src/admins and the guards.
THEOREM TypeCorrect == Spec => []TypeOK
<1>1. IInv => TypeOK
  BY DEF IInv, RequestsOK, PermissionsOK, PeopleOK, TypeOK
<1> QED
  BY <1>1, AlwaysIInv, PTL

\* No ADMIN holds, in the table, in the cache or in a request under way, a
\* permission that no accepted list gave: assertDelegable runs before the
\* transaction, and everything read later was written by it.
THEOREM NothingElseIsGiven == Spec => []OnlyWhatWasGiven
<1>1. IInv => OnlyWhatWasGiven
  BY DEF IInv, RequestsOK, GoodRow, PermissionsOK, Given, OnlyWhatWasGiven
<1> QED
  BY <1>1, AlwaysIInv, PTL

(***************************************************************************)
(* Steps aside: those that neither judge a request nor write what it is    *)
(* judged on.  All of Sessions, and Team but for the permissions.          *)
(***************************************************************************)
\* The request becomes row.
Becomes(r, row) == requests' = [requests EXCEPT ![r] = row]

\* What a request that stands there holds was read for the guards.
Judged == {"cacheSet", "guards", "inside"}

AsideRow(row) == row.next \notin Judged \/ row.account = NoAccount

Aside ==
  /\ UNCHANGED <<override, cache, redis>>
  /\ \/ UNCHANGED requests
     \/ \E r \in Requests :
          requests[r].next # "invalidate" /\ \E row : Becomes(r, row) /\ AsideRow(row)

LEMMA OnFields ==
  ASSUME NEW step, NEW a
  PROVE  On(step, a).next = step /\ On(step, a).account = a /\ On(step, a).seen = user[a]
  BY DEF On, Idle

LEMMA OnWith ==
  ASSUME NEW step, NEW a, NEW x
  PROVE  /\ [On(step, a) EXCEPT !.token = x].next = step
         /\ [On(step, a) EXCEPT !.token = x].account = a
         /\ [On(step, a) EXCEPT !.token = x].token = x
         /\ [On(step, a) EXCEPT !.link = x].next = step
         /\ [On(step, a) EXCEPT !.link = x].account = a
         /\ [On(step, a) EXCEPT !.link = x].link = x
         /\ [On(step, a) EXCEPT !.wanted = x].next = step
  BY DEF On, Idle

LEMMA GoesOn ==
  ASSUME RequestsOK, NEW r \in Requests, NEW step, GoTo(r, step)
  PROVE  \E row : /\ Becomes(r, row) /\ row.next = step
                  /\ row.account = requests[r].account /\ row.seen = requests[r].seen
                  /\ row.token = requests[r].token /\ row.link = requests[r].link
                  /\ row.permissions = requests[r].permissions
                  /\ row.route = requests[r].route
<1> DEFINE row == [requests[r] EXCEPT !.next = step]
<1>1. Becomes(r, row)
  BY DEF GoTo, Becomes
<1>2. requests[r] \in RequestRows
  BY DEF RequestsOK
<1> QED
  BY <1>1, <1>2 DEF RequestRows

LEMMA EndsIdle ==
  ASSUME NEW r \in Requests, Finish(r)
  PROVE  Becomes(r, Idle) /\ Idle.next = "idle"
  BY DEF Finish, Becomes, Idle

LEMMA BeginsAside ==
  ASSUME UNCHANGED <<override, cache, redis>>, NEW r \in Requests, NEW op, NEW row,
         Begin(r, op, row), AsideRow(row)
  PROVE  Aside
  BY DEF Aside, Begin, Becomes, At

LEMMA GoesAside ==
  ASSUME RequestsOK, UNCHANGED <<override, cache, redis>>, NEW r \in Requests,
         requests[r].next # "invalidate", NEW step, GoTo(r, step), step \notin Judged
  PROVE  Aside
<1>1. PICK row : Becomes(r, row) /\ row.next = step
  BY GoesOn
<1> QED
  BY <1>1 DEF Aside, AsideRow

LEMMA EndsAside ==
  ASSUME UNCHANGED <<override, cache, redis>>, NEW r \in Requests,
         requests[r].next # "invalidate", Finish(r)
  PROVE  Aside
  BY EndsIdle DEF Aside, AsideRow, Judged

LEMMA SessionsAside ==
  ASSUME IInv, SessionsNext
  PROVE  Aside
<1>1. RequestsOK
  BY DEF IInv
<1>2. /\ AsideRow(Idle)
      /\ \A step, a : step \notin Judged => AsideRow(On(step, a))
      /\ \A step, a, x : step \notin Judged =>
           /\ AsideRow([On(step, a) EXCEPT !.token = x])
           /\ AsideRow([On(step, a) EXCEPT !.link = x])
  BY OnFields, OnWith DEF AsideRow, Idle, Judged
<1>3. CASE \E r \in Requests, a \in Accounts :
             \/ Register(r, a) \/ Login(r, a) \/ ForgotPassword(r, a) \/ ChangePassword(r, a)
             \/ \E tokens \in SUBSET Tokens : Logout(r, a, tokens)
             \/ \E t \in Tokens : RevokeSession(r, a, t)
  BY <1>2, <1>3, BeginsAside DEF Register, Login, ForgotPassword, ChangePassword, Logout,
     RevokeSession, tables, Judged
<1>4. CASE \E r \in Requests :
             \/ \E t \in Tokens : Refresh(r, t)
             \/ \E l \in Links : ResetPassword(r, l) \/ Activate(r, l)
  BY <1>2, <1>4, BeginsAside DEF Refresh, ResetPassword, Activate, tables, Judged
<1>5. CASE \E r \in Requests :
             \/ Offline(r) \/ LoginFails(r) \/ MarkLogin(r) \/ RevokeFamily(r) \/ Consume(r)
             \/ RevokeAll(r) \/ IssueActivated(r)
  BY <1>5, EndsAside DEF Offline, LoginFails, MarkLogin, RevokeFamily, Consume, RevokeAll,
     IssueActivated, At
<1>6. CASE \E r \in Requests :
             RegisterTx(r) \/ LoginSucceeds(r) \/ Issue(r) \/ Rotate(r) \/ ResetTx(r) \/ ChangeTx(r)
  BY <1>1, <1>6, EndsAside, GoesAside DEF RegisterTx, LoginSucceeds, Issue, Rotate, ResetTx,
     ChangeTx, tables, At, Judged
<1>7. ASSUME NEW r \in Requests, ActivateTx(r) PROVE Aside
  <2> DEFINE a == requests[r].account
             row == [requests[r] EXCEPT !.next = "issueActivated",
                                        !.seen.password = user[a].password + 1]
  <2>1. Becomes(r, row) /\ row.next = "issueActivated"
    BY <1>1, <1>7 DEF ActivateTx, Becomes, RequestsOK, RequestRows
  <2>2. requests[r].next # "invalidate" /\ UNCHANGED <<override, cache, redis>>
    BY <1>7 DEF ActivateTx, At
  <2> HIDE DEF row
  <2> QED
    BY <2>1, <2>2 DEF Aside, AsideRow, Judged
<1>8. CASE \/ PurgeTokens \/ \E t \in Tokens : SessionExpires(t)
           \/ \E l \in Links : LinkExpires(l)
           \/ \E a \in Accounts : LockEnds(a)
  BY <1>8 DEF PurgeTokens, SessionExpires, LinkExpires, LockEnds, Aside
<1> QED
  BY <1>3, <1>4, <1>5, <1>6, <1>7, <1>8 DEF SessionsNext

LEMMA TeamAside ==
  ASSUME IInv, TeamNext
  PROVE  Aside \/ \E r \in Requests : GrantTx(r) \/ Invalidate(r)
<1>1. RequestsOK
  BY DEF IInv
<1>2. /\ AsideRow(Idle)
      /\ \A step, a : step \notin Judged => AsideRow(On(step, a))
      /\ \A step, a, x : step \notin Judged => AsideRow([On(step, a) EXCEPT !.wanted = x])
  BY OnFields, OnWith DEF AsideRow, Idle, Judged
<1>3. ASSUME NEW r \in Requests, NEW a \in Accounts, NEW op, NEW mode, NEW row,
             OpenAccount(r, op, a, mode, row), AsideRow(row)
      PROVE  Aside
  BY <1>3, BeginsAside DEF OpenAccount
<1>4. ASSUME NEW r \in Requests, NEW a \in Accounts, NEW mode,
             CreateAdmin(r, a, mode) \/ CreateDriver(r, a, mode)
      PROVE  Aside
  BY <1>2, <1>3, <1>4 DEF CreateAdmin, CreateDriver, Judged
<1>5. ASSUME NEW r \in Requests, NEW a \in Accounts, NEW op, NEW row, WriteStatus(r, op, a, row)
      PROVE  Aside
  BY <1>2, <1>5, BeginsAside DEF WriteStatus, Judged
<1>6. ASSUME NEW r \in Requests, NEW a \in Accounts, NEW status \in Statuses,
             \/ SetAdminStatus(r, a, status) \/ SetCustomerStatus(r, a, status)
             \/ SetDriverStatus(r, a, status)
      PROVE  Aside
  BY <1>5, <1>6 DEF SetAdminStatus, SetCustomerStatus, SetDriverStatus
<1>7. ASSUME NEW r \in Requests, NEW a \in Accounts,
             \/ \E list \in Lists : SetPermissions(r, a, list)
             \/ RemoveAdmin(r, a) \/ ResendActivation(r, a) \/ GoOnline(r, a)
      PROVE  Aside
  BY <1>2, <1>7, BeginsAside DEF SetPermissions, RemoveAdmin, ResendActivation, GoOnline, tables,
     Judged
<1>8. ASSUME NEW r \in Requests, NEW a \in Accounts, RemoveDriver(r, a) PROVE Aside
  BY <1>5, <1>8 DEF RemoveDriver
<1>9. ASSUME NEW r \in Requests, RemoveRevoke(r) PROVE Aside
  BY <1>1, <1>9, GoesAside DEF RemoveRevoke, At, Judged
<1> QED
  BY <1>4, <1>6, <1>7, <1>8, <1>9 DEF TeamNext

LEMMA GateAside ==
  ASSUME IInv, GateNext
  PROVE  \/ Aside
         \/ \E r \in Requests :
              Validate(r) \/ CacheGet(r) \/ CacheFill(r) \/ CacheSet(r) \/ Guards(r)
         \/ \E a \in Accounts : CacheExpires(a)
         \/ RedisFails \/ RedisReturns
<1>1. ASSUME NEW r \in Requests, NEW a \in Accounts, NEW route \in Doors, Knock(r, a, route)
      PROVE  Aside
  <2>1. ASSUME NEW x PROVE /\ AsideRow([Idle EXCEPT !.next = "inside", !.route = x])
                           /\ AsideRow([Idle EXCEPT !.next = "validate", !.account = a, !.route = x])
    BY DEF AsideRow, Idle, Judged
  <2> QED
    BY <1>1, <2>1, BeginsAside DEF Knock, tables
<1>2. ASSUME NEW r \in Requests, Leave(r) PROVE Aside
  BY <1>2, EndsAside DEF Leave, tables, At
<1> QED
  BY <1>1, <1>2 DEF GateNext

(***************************************************************************)
(* Who is inside passed the guards                                         *)
(***************************************************************************)
Entered(q) ==
  q.next = "inside" /\ q.account # NoAccount =>
    passes(q.route, RoleOf[q.account], q.seen, q.permissions)

EInv == \A r \in Requests : Entered(requests[r])

LEMMA EntersAs ==
  ASSUME RequestsOK, EInv, NEW r \in Requests, NEW row, Becomes(r, row), Entered(row)
  PROVE  EInv'
  BY DEF RequestsOK, EInv, Becomes, Entered

LEMMA AsideEnters == ASSUME IInv, EInv, Aside PROVE EInv'
<1>1. CASE UNCHANGED requests
  BY <1>1 DEF EInv, Entered
<1>2. ASSUME NEW r \in Requests, NEW row, Becomes(r, row), AsideRow(row) PROVE EInv'
  BY <1>2, EntersAs DEF IInv, AsideRow, Judged, Entered
<1> QED
  BY <1>1, <1>2 DEF Aside

LEMMA NextEInv == ASSUME IInv, EInv, [Next]_vars PROVE EInv'
<1>1. RequestsOK
  BY DEF IInv
<1>2. ASSUME NEW r \in Requests, NEW step, GoTo(r, step), step # "inside" PROVE EInv'
  <2>1. PICK row : Becomes(r, row) /\ row.next = step
    BY <1>1, <1>2, GoesOn
  <2> QED
    BY <1>1, <1>2, <2>1, EntersAs DEF Entered
<1>3. ASSUME NEW r \in Requests, Finish(r) PROVE EInv'
  BY <1>1, <1>3, EndsIdle, EntersAs DEF Entered
<1>4. ASSUME NEW r \in Requests, GrantTx(r) \/ Invalidate(r) \/ CacheSet(r) PROVE EInv'
  BY <1>2, <1>3, <1>4 DEF GrantTx, Invalidate, CacheSet, afterRead
<1>5. ASSUME NEW r \in Requests, CacheGet(r) \/ CacheFill(r) PROVE EInv'
  <2> DEFINE a == requests[r].account
             p == [requests[r] EXCEPT !.permissions = cache[a].permissions,
                                      !.next = afterRead(r)]
             q == [requests[r] EXCEPT !.permissions = effective(RoleOf[a], override[a]),
                                      !.next = "cacheSet"]
  <2>1. p.next # "inside" /\ q.next # "inside"
    BY <1>1 DEF RequestsOK, RequestRows, afterRead
  <2>2. Becomes(r, p) \/ Becomes(r, q) \/ GoTo(r, "cacheFill")
    BY <1>1, <1>5 DEF CacheGet, CacheFill, Becomes, RequestsOK, RequestRows
  <2> HIDE DEF p, q
  <2> QED
    BY <1>1, <1>2, <2>1, <2>2, EntersAs DEF Entered
<1>6. ASSUME NEW r \in Requests, Validate(r) PROVE EInv'
  <2> DEFINE a == requests[r].account
             p == [requests[r] EXCEPT
                     !.seen = user[a],
                     !.permissions = IF RoleOf[a] = "SUPER_ADMIN" THEN PERMISSIONS ELSE {},
                     !.next = IF RoleOf[a] = "ADMIN" THEN "cacheGet" ELSE "guards"]
             q == [requests[r] EXCEPT !.next = "inside", !.account = NoAccount]
  <2>1. p.next # "inside" /\ q.account = NoAccount
    BY <1>1 DEF RequestsOK, RequestRows
  <2>2. Becomes(r, p) \/ Becomes(r, q) \/ Finish(r)
    BY <1>1, <1>6 DEF Validate, Becomes, RequestsOK, RequestRows
  <2> HIDE DEF p, q
  <2> QED
    BY <1>1, <1>3, <2>1, <2>2, EntersAs DEF Entered
<1>7. ASSUME NEW r \in Requests, Guards(r) PROVE EInv'
  <2> DEFINE q == requests[r]
             judged == passes(q.route, RoleOf[q.account], q.seen, q.permissions)
  <2>1. CASE judged /\ GoTo(r, "inside")
    <3>1. PICK row : /\ Becomes(r, row) /\ row.account = q.account /\ row.seen = q.seen
                     /\ row.permissions = q.permissions /\ row.route = q.route
      BY <1>1, <2>1, GoesOn
    <3>2. Entered(row)
      BY <2>1, <3>1 DEF Entered
    <3> QED
      BY <1>1, <3>1, <3>2, EntersAs
  <2> QED
    BY <1>3, <1>7, <2>1 DEF Guards
<1>8. CASE (\E a \in Accounts : CacheExpires(a)) \/ RedisFails \/ RedisReturns \/ UNCHANGED vars
  BY <1>8 DEF CacheExpires, RedisFails, RedisReturns, vars, EInv, Entered
<1> QED
  BY <1>4, <1>5, <1>6, <1>7, <1>8, SessionsAside, TeamAside, GateAside, AsideEnters DEF Next

LEMMA AlwaysEInv == Spec => []EInv
<1>1. Init => EInv
  BY DEF Init, Idle, EInv, Entered
<1> QED
  BY <1>1, AlwaysIInv, NextEInv, PTL DEF Spec

(***************************************************************************)
(* The table of docs/authorization.md against the decorators: what the     *)
(* controllers declare for the routes the table names, and that they       *)
(* declare those routes nowhere else.                                      *)
(***************************************************************************)
Tabled == {"POST orders", "POST orders/quote", "POST orders/:id/cancel",
           "POST orders/:id/assign", "POST payments/:id/refund", "POST drivers",
           "DELETE drivers/:id", "PATCH customers/:id", "POST administrators",
           "PATCH administrators/:id/permissions", "PATCH settings/system",
           "GET audit-logs", "PATCH settings/restaurant"}

OnlyFor(route, role) == route.roles = {role}

Asks(route, permission) ==
  route.roles = BACK_OFFICE /\ route.permissions = {permission} /\ route.mode = "all"

AsTabled(route) ==
  /\ route.route \in {"POST orders", "POST orders/quote"} => OnlyFor(route, "CUSTOMER")
  /\ route.route = "POST orders/:id/assign" => Asks(route, "ORDERS_ASSIGN_DRIVER")
  /\ route.route = "POST payments/:id/refund" => Asks(route, "PAYMENTS_REFUND")
  /\ route.route = "POST drivers" => Asks(route, "DRIVERS_CREATE")
  /\ route.route = "DELETE drivers/:id" => Asks(route, "DRIVERS_DELETE")
  /\ route.route = "PATCH customers/:id" => Asks(route, "CUSTOMERS_UPDATE")
  /\ route.route \in {"POST administrators", "PATCH administrators/:id/permissions",
                      "PATCH settings/system"} => OnlyFor(route, "SUPER_ADMIN")
  /\ route.route = "GET audit-logs" => Asks(route, "AUDIT_READ")
  /\ route.route = "PATCH settings/restaurant" => Asks(route, "SETTINGS_UPDATE")

AllAsTabled(routes) == \A route \in routes : AsTabled(route)

LEMMA NotOfTheTable ==
  \A access, roles, permissions, mode, names :
    (\A name \in names : name \notin Tabled) =>
      AllAsTabled(Declare(access, roles, permissions, mode, names))
<1> SUFFICES ASSUME NEW access, NEW roles, NEW permissions, NEW mode, NEW names,
                    \A name \in names : name \notin Tabled,
                    NEW route \in Declare(access, roles, permissions, mode, names)
             PROVE  AsTabled(route)
  BY DEF AllAsTabled
<1>1. route.route \notin Tabled
  BY DEF Declare
<1> QED
  BY <1>1 DEF AsTabled, Tabled

LEMMA OfTheTable ==
  \A access, roles, permissions, mode, names :
    (\A name \in names :
       AsTabled([route |-> name, access |-> access, roles |-> roles,
                 permissions |-> permissions, mode |-> mode])) =>
      AllAsTabled(Declare(access, roles, permissions, mode, names))
  BY DEF AllAsTabled, Declare

LEMMA Together ==
  \A these, those :
    AllAsTabled(these) /\ AllAsTabled(those) => AllAsTabled(these \union those)
  BY DEF AllAsTabled

LEMMA RoutesAsTabled == \A route \in AllRoutes : AsTabled(route)
<1>1. /\ AllAsTabled(AddressesRoutes) /\ AllAsTabled(PublicAuthRoutes)
     /\ AllAsTabled(AccountRoutes) /\ AllAsTabled(CartsRoutes)
     /\ AllAsTabled(ChapChapWebhookRoutes) /\ AllAsTabled(CustomerProfileRoutes)
  BY NotOfTheTable, Together
  DEF Tabled, For, Open, SignedIn, WhilePending, AddressesRoutes, PublicAuthRoutes,
      AccountRoutes, CartsRoutes, ChapChapWebhookRoutes, CustomerProfileRoutes
<1>2. /\ AllAsTabled(DeliveriesRoutes) /\ AllAsTabled(DriverDeliveriesRoutes)
     /\ AllAsTabled(OrderDriverLocationRoutes) /\ AllAsTabled(DriverProfileRoutes)
     /\ AllAsTabled(EmployeesRoutes) /\ AllAsTabled(ExpensesRoutes)
  BY NotOfTheTable, Together
  DEF Tabled, For, Staff, DeliveriesRoutes, DriverDeliveriesRoutes,
      OrderDriverLocationRoutes, DriverProfileRoutes, EmployeesRoutes, ExpensesRoutes
<1>3. /\ AllAsTabled(IncomesRoutes) /\ AllAsTabled(FavoritesRoutes)
     /\ AllAsTabled(FinanceRoutes) /\ AllAsTabled(FinanceExportRoutes)
     /\ AllAsTabled(GeoRoutes) /\ AllAsTabled(HealthRoutes)
  BY NotOfTheTable, Together
  DEF Tabled, For, Open, Staff, IncomesRoutes, FavoritesRoutes, FinanceRoutes,
      FinanceExportRoutes, GeoRoutes, HealthRoutes
<1>4. /\ AllAsTabled(CategoriesRoutes) /\ AllAsTabled(MenuItemsRoutes)
     /\ AllAsTabled(NotificationsRoutes) /\ AllAsTabled(PaymentListRoutes)
     /\ AllAsTabled(PermissionsRoutes) /\ AllAsTabled(PosRoutes)
  BY NotOfTheTable, Together
  DEF Tabled, Recognised, SignedIn, Staff, StaffAny, CategoriesRoutes, MenuItemsRoutes,
      NotificationsRoutes, PaymentListRoutes, PermissionsRoutes, PosRoutes
<1>5. /\ AllAsTabled(PromotionsRoutes) /\ AllAsTabled(RecipesRoutes)
     /\ AllAsTabled(DashboardRoutes) /\ AllAsTabled(SuperAdminDashboardRoutes)
     /\ AllAsTabled(ReportsRoutes) /\ AllAsTabled(RestaurantsRoutes)
  BY NotOfTheTable, Together
  DEF Tabled, For, OwnerWith, Staff, PromotionsRoutes, RecipesRoutes, DashboardRoutes,
      SuperAdminDashboardRoutes, ReportsRoutes, RestaurantsRoutes
<1>6. /\ AllAsTabled(ReviewsRoutes) /\ AllAsTabled(SearchRoutes)
     /\ AllAsTabled(RestaurantRoutes) /\ AllAsTabled(SuppliersRoutes)
     /\ AllAsTabled(StockRoutes) /\ AllAsTabled(PurchasesRoutes)
  BY NotOfTheTable, Together
  DEF Tabled, For, Recognised, SignedIn, Staff, ReviewsRoutes, SearchRoutes,
      RestaurantRoutes, SuppliersRoutes, StockRoutes, PurchasesRoutes
<1>7. /\ AllAsTabled(StorageRoutes) /\ AllAsTabled(SyncNodeRoutes)
     /\ AllAsTabled(SyncStatusRoutes)
  BY NotOfTheTable, Together
  DEF Tabled, For, Open, SignedIn, Staff, StaffAny, StorageRoutes, SyncNodeRoutes,
      SyncStatusRoutes
<1>8. AllAsTabled(AdminsRoutes)
  BY NotOfTheTable, OfTheTable, Together
  DEF Tabled, AsTabled, Asks, OnlyFor, Owner, OwnerWith, AdminsRoutes
<1>9. AllAsTabled(AuditRoutes)
  BY NotOfTheTable, OfTheTable, Together
  DEF Tabled, AsTabled, Asks, OnlyFor, Staff, AuditRoutes
<1>10. AllAsTabled(CustomersRoutes)
  BY NotOfTheTable, OfTheTable, Together
  DEF Tabled, AsTabled, Asks, OnlyFor, Staff, CustomersRoutes
<1>11. AllAsTabled(OrderAssignmentRoutes)
  BY NotOfTheTable, OfTheTable, Together
  DEF Tabled, AsTabled, Asks, OnlyFor, Staff, OrderAssignmentRoutes
<1>12. AllAsTabled(DriversRoutes)
  BY NotOfTheTable, OfTheTable, Together
  DEF Tabled, AsTabled, Asks, OnlyFor, Staff, DriversRoutes
<1>13. AllAsTabled(OrderListRoutes)
  BY NotOfTheTable, OfTheTable, Together
  DEF Tabled, AsTabled, Asks, OnlyFor, Customer, For, Staff, SignedIn, OrderListRoutes
<1>14. AllAsTabled(OrderRoutes)
  BY NotOfTheTable, OfTheTable, Together
  DEF Tabled, AsTabled, Asks, OnlyFor, Customer, For, SignedIn, OrderRoutes
<1>15. AllAsTabled(PaymentRoutes)
  BY NotOfTheTable, OfTheTable, Together
  DEF Tabled, AsTabled, Asks, OnlyFor, Customer, For, Staff, SignedIn, PaymentRoutes
<1>16. AllAsTabled(SettingsRoutes)
  BY NotOfTheTable, OfTheTable, Together
  DEF Tabled, AsTabled, Asks, OnlyFor, Owner, Staff, OwnerWith, SettingsRoutes
<1> QED
  BY <1>1, <1>2, <1>3, <1>4, <1>5, <1>6, <1>7, <1>8, <1>9, <1>10, <1>11, <1>12, <1>13,
     <1>14, <1>15, <1>16
  DEF AllAsTabled, AllRoutes

\* What the guards let through, the table allows.
LEMMA GuardsKeepTheTable ==
  ASSUME NEW route \in AllRoutes, NEW right \in Matrix, route.route \in right.routes,
         NEW role \in Roles, NEW row, NEW held, passes(route, role, row, held)
  PROVE  role \in right.roles \/ (role = "ADMIN" /\ right.permission \in held)
<1> DEFINE Goal == role \in right.roles \/ (role = "ADMIN" /\ right.permission \in held)
<1> SUFFICES Goal
  OBVIOUS
<1>1. AsTabled(route)
  BY RoutesAsTabled
<1>2. ASSUME NEW routes, NEW roles, right = Right(routes, roles, ""),
             NEW only, OnlyFor(route, only), only \in roles
      PROVE  Goal
  BY <1>2 DEF OnlyFor, Right, passes, rolesGuard
<1>3. ASSUME NEW routes, NEW permission, right = Right(routes, {"SUPER_ADMIN"}, permission),
             Asks(route, permission)
      PROVE  Goal
  BY <1>3 DEF Asks, Right, passes, rolesGuard, permissionsGuard, BACK_OFFICE
<1>4. CASE right = Right({"POST orders/:id/cancel"}, {"CUSTOMER", "SUPER_ADMIN"}, "ORDERS_CANCEL")
  <2>1. route.route = "POST orders/:id/cancel"
    BY <1>4 DEF Right
  <2>2. checkedInside(route) = {"ORDERS_CANCEL"}
    BY <2>1 DEF checkedInside, TRANSITION_PERMISSION
  <2> QED
    BY <1>4, <2>1, <2>2 DEF Right, passes, handlerCheck, Roles
<1>5. CASE right = Right({"POST orders", "POST orders/quote"}, {"CUSTOMER"}, "")
  <2>1. OnlyFor(route, "CUSTOMER")
    BY <1>1, <1>5 DEF Right, AsTabled
  <2> QED
    BY <1>2, <1>5, <2>1
<1>6. CASE right = Right({"POST administrators", "PATCH administrators/:id/permissions",
                          "PATCH settings/system"}, {"SUPER_ADMIN"}, "")
  <2>1. OnlyFor(route, "SUPER_ADMIN")
    BY <1>1, <1>6 DEF Right, AsTabled
  <2> QED
    BY <1>2, <1>6, <2>1
<1>7. ASSUME NEW name, NEW permission, right = Right({name}, {"SUPER_ADMIN"}, permission),
             route.route = name => Asks(route, permission)
      PROVE  Goal
  BY <1>3, <1>7 DEF Right
<1>8. /\ route.route = "POST orders/:id/assign" => Asks(route, "ORDERS_ASSIGN_DRIVER")
      /\ route.route = "POST payments/:id/refund" => Asks(route, "PAYMENTS_REFUND")
      /\ route.route = "POST drivers" => Asks(route, "DRIVERS_CREATE")
      /\ route.route = "DELETE drivers/:id" => Asks(route, "DRIVERS_DELETE")
      /\ route.route = "PATCH customers/:id" => Asks(route, "CUSTOMERS_UPDATE")
      /\ route.route = "GET audit-logs" => Asks(route, "AUDIT_READ")
      /\ route.route = "PATCH settings/restaurant" => Asks(route, "SETTINGS_UPDATE")
  BY <1>1 DEF AsTabled
<1>9. \/ right = Right({"POST orders", "POST orders/quote"}, {"CUSTOMER"}, "")
      \/ right = Right({"POST orders/:id/cancel"}, {"CUSTOMER", "SUPER_ADMIN"}, "ORDERS_CANCEL")
      \/ right = Right({"POST administrators", "PATCH administrators/:id/permissions",
                        "PATCH settings/system"}, {"SUPER_ADMIN"}, "")
      \/ right = Right({"POST orders/:id/assign"}, {"SUPER_ADMIN"}, "ORDERS_ASSIGN_DRIVER")
      \/ right = Right({"POST payments/:id/refund"}, {"SUPER_ADMIN"}, "PAYMENTS_REFUND")
      \/ right = Right({"POST drivers"}, {"SUPER_ADMIN"}, "DRIVERS_CREATE")
      \/ right = Right({"DELETE drivers/:id"}, {"SUPER_ADMIN"}, "DRIVERS_DELETE")
      \/ right = Right({"PATCH customers/:id"}, {"SUPER_ADMIN"}, "CUSTOMERS_UPDATE")
      \/ right = Right({"GET audit-logs"}, {"SUPER_ADMIN"}, "AUDIT_READ")
      \/ right = Right({"PATCH settings/restaurant"}, {"SUPER_ADMIN"}, "SETTINGS_UPDATE")
  BY DEF Matrix
<1> HIDE DEF Goal
<1> QED
  BY <1>4, <1>5, <1>6, <1>7, <1>8, <1>9

\* Whoever is inside a route of the table of docs/authorization.md has the right
\* the table names, a role or, for an ADMIN, a permission: the decorators of the
\* nine controllers that serve those routes, the order of the guards and the
\* checks of the order handlers give nobody else a way in, however requests cross.
THEOREM TableIsFollowed == Spec => []FollowsTheMatrix
<1>1. ASSUME IInv, EInv PROVE FollowsTheMatrix
  <2> SUFFICES ASSUME NEW r \in Requests, NEW right \in Matrix, inside(r),
                      requests[r].route.route \in right.routes
               PROVE  \/ RoleOf[requests[r].account] \in right.roles
                      \/ /\ RoleOf[requests[r].account] = "ADMIN"
                         /\ right.permission \in requests[r].permissions
    BY DEF FollowsTheMatrix
  <2> DEFINE q == requests[r]
  <2>1. q.account \in Accounts /\ q.route \in AllRoutes \union {Nowhere}
    BY <1>1 DEF IInv, RequestsOK, RequestRows, inside
  <2>2. q.route # Nowhere
    <3>1. \A routes, roles, permission :
            "none" \notin routes => "none" \notin Right(routes, roles, permission).routes
      BY DEF Right
    <3>2. "none" \notin right.routes
      BY <3>1 DEF Matrix
    <3>3. Nowhere.route = "none"
      BY DEF Nowhere
    <3> QED
      BY <3>2, <3>3
  <2>3. RoleOf[q.account] \in Roles
    BY <2>1, DirectoryAssumption
  <2>4. passes(q.route, RoleOf[q.account], q.seen, q.permissions)
    BY <1>1 DEF EInv, Entered, inside, At
  <2> HIDE DEF q
  <2>5. q.route \in AllRoutes /\ q.route.route \in right.routes
    BY <2>1, <2>2 DEF q
  <2>6. \/ RoleOf[q.account] \in right.roles
        \/ RoleOf[q.account] = "ADMIN" /\ right.permission \in q.permissions
    BY <2>3, <2>4, <2>5, GuardsKeepTheTable
  <2> QED
    BY <2>6 DEF q
<1> QED
  BY <1>1, AlwaysIInv, AlwaysEInv, PTL
==============================================================================
