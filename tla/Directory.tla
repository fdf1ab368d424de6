------------------------------ MODULE Directory ------------------------------
(***************************************************************************)
(* What the account handlers share: users, refresh tokens, activation and  *)
(* reset links, individual permissions and their cache.                    *)
(*                                                                         *)
(* As in Store, a handler reads and decides, then commits what it decided: *)
(* between two steps any other request may commit.  A token or a link is   *)
(* the number of its row; a password is how often somebody chose one for   *)
(* the account, 0 for the random one nobody knows, and whether a request   *)
(* shows the right one is a choice TLC makes.                              *)
(***************************************************************************)
EXTENDS Routes, Integers, FiniteSets

CONSTANTS
  Accounts,       \* user ids
  NoAccount,
  RoleOf,         \* users.role, which no handler changes
  Opening,        \* the status of each account at the start, or ABSENT
  Lists,          \* the permission lists a SUPER_ADMIN asks for
  Statuses,       \* the statuses staff set
  Requests,       \* handler slots: each serves one request at a time
  MaxAttempts,    \* security.maxLoginAttempts
  MaxTokens,      \* bound: refresh tokens issued in a behaviour
  MaxLinks,       \* bound: activation and reset links sent in a behaviour
  MaxInFlight,    \* bound: requests running at once (1 = one after the other)
  MaxCalls,       \* bound: requests served in a behaviour
  Ops             \* the routes exercised by an instance

AccountStates == {"ABSENT", "PENDING", "ACTIVE", "INACTIVE", "SUSPENDED"}

ASSUME DirectoryAssumption ==
  /\ NoAccount \notin Accounts
  /\ RoleOf \in [Accounts -> Roles]
  /\ Opening \in [Accounts -> AccountStates]
  /\ Lists \subseteq SUBSET PERMISSIONS
  /\ Statuses \subseteq AccountStates \ {"ABSENT"}
  /\ MaxAttempts \in Nat \ {0}
  /\ MaxTokens \in Nat /\ MaxLinks \in Nat /\ MaxInFlight \in Nat /\ MaxCalls \in Nat

VARIABLES
  user,      \* users, and isOnline of driver_profiles
  session,   \* refresh_tokens
  link,      \* auth_tokens
  override,  \* user_permissions
  cache,     \* permissions:user:<id> in Redis
  redis,     \* Redis answers
  wrong,     \* ledger: wrong passwords since the account last proved itself
  opened,    \* ledger: passwords chosen with a link
  calls,     \* how many requests have arrived
  requests   \* what each request has read, and its next step

tables == <<user, session, link, override, cache, redis, wrong, opened>>
vars == <<user, session, link, override, cache, redis, wrong, opened, calls, requests>>

Tokens == 1..MaxTokens
Links  == 1..MaxLinks

UserRows == [status : AccountStates, removed : BOOLEAN,      \* deletedAt is set
             password : Nat, temporary : BOOLEAN,            \* mustChangePassword
             activated : Nat,    \* ledger: the password an activation link chose
             failures : Nat, locked : BOOLEAN, online : BOOLEAN]

SessionRows == [state : {"none", "live", "revoked", "purged"}, expired : BOOLEAN,
                account : Accounts \union {NoAccount}, family : Tokens \union {0},
                password : Nat]     \* ledger: the password that opened the family

LinkRows == [state : {"none", "unused", "used"}, expired : BOOLEAN,
             purpose : {"RESET", "ACTIVATION"}, account : Accounts \union {NoAccount}]

\* An entry of the cache, or none.
CacheRows == [held : BOOLEAN, permissions : SUBSET PERMISSIONS]

Miss == [held |-> FALSE, permissions |-> {}]

NewUser(status, password) ==
                   [status |-> status, removed |-> FALSE, password |-> password,
                    temporary |-> FALSE, activated |-> 0, failures |-> 0,
                    locked |-> FALSE, online |-> FALSE]

NoSession == [state |-> "none", expired |-> FALSE, account |-> NoAccount, family |-> 0,
              password |-> 0]

NoLink == [state |-> "none", expired |-> FALSE, purpose |-> "RESET", account |-> NoAccount]

exists(a)  == user[a].status # "ABSENT"
present(a) == exists(a) /\ ~ user[a].removed

live(t) == session[t].state = "live"

sessionsOf(a) == {t \in Tokens : live(t) /\ session[t].account = a}

\* An access token came with the first refresh token of the account.
signedIn(a) ==
  /\ present(a) /\ user[a].status = "ACTIVE"
  /\ \E t \in Tokens : session[t].account = a

unusedLinks(a, purpose) ==
  {l \in Links : link[l].state = "unused" /\ link[l].account = a /\ link[l].purpose = purpose}

(***************************************************************************)
(* Requests: what one holds between two of its steps.                      *)
(***************************************************************************)
Steps == {"idle", "registerTx", "compare", "issue", "markLogin", "issueActivated",
          "rotate", "consume", "revokeFamily", "offline", "resetTx", "changeTx", "activateTx",
          "revokeAll", "removeRevoke", "grantTx", "invalidate",
          "validate", "cacheGet", "cacheFill", "cacheSet", "guards", "inside"}

Nowhere == [route |-> "none", access |-> "public", roles |-> {}, permissions |-> {},
            mode |-> "all"]

RequestRows == [next : Steps, account : Accounts \union {NoAccount}, seen : UserRows,
                token : Tokens \union {0}, link : Links \union {0},
                permissions : SUBSET PERMISSIONS,   \* read from the cache or the table
                wanted : SUBSET PERMISSIONS,        \* asked for by a SUPER_ADMIN
                route : AllRoutes \union {Nowhere}]

Idle == [next |-> "idle", account |-> NoAccount, seen |-> NewUser("ABSENT", 0), token |-> 0,
         link |-> 0, permissions |-> {}, wanted |-> {}, route |-> Nowhere]

At(r, step) == requests[r].next = step

InFlight == {r \in Requests : ~ At(r, "idle")}

\* A request that may open a session finds room for it in the instance.
room == Cardinality({t \in Tokens : session[t].state = "none"}) > Cardinality(InFlight)

\* A request of route op arrives, its guards hold, and it goes on as row.
Begin(r, op, row) ==
  /\ op \in Ops
  /\ At(r, "idle")
  /\ Cardinality(InFlight) < MaxInFlight /\ calls < MaxCalls
  /\ calls' = calls + 1
  /\ requests' = [requests EXCEPT ![r] = row]

On(step, a) == [Idle EXCEPT !.next = step, !.account = a, !.seen = user[a]]

GoTo(r, step) == requests' = [requests EXCEPT ![r].next = step] /\ UNCHANGED calls

Finish(r) == requests' = [requests EXCEPT ![r] = Idle] /\ UNCHANGED calls

(***************************************************************************)
(* Writes that several handlers share.                                     *)
(***************************************************************************)
\* TokenService.issue: a refresh token, in the family it renews or in its own.
IssueRow(a, family, password) ==
  \E t \in Tokens :
    /\ session[t].state = "none"
    /\ \A earlier \in Tokens : earlier < t => session[earlier].state # "none"
    /\ session' = [session EXCEPT ![t] =
         [state |-> "live", expired |-> FALSE, account |-> a, password |-> password,
          family |-> IF family = 0 THEN t ELSE family]]

Revoke(tokens) ==
  session' = [t \in Tokens |-> IF t \in tokens /\ live(t)
                                 THEN [session[t] EXCEPT !.state = "revoked"] ELSE session[t]]

\* A new link of that purpose, and the ones the account had not used fall.
SendLink(a, purpose) ==
  \E l \in Links :
    /\ link[l].state = "none"
    /\ \A earlier \in Links : earlier < l => link[earlier].state # "none"
    /\ link' = [k \in Links |->
         IF k = l THEN [state |-> "unused", expired |-> FALSE, purpose |-> purpose,
                        account |-> a]
         ELSE IF k \in unusedLinks(a, purpose) THEN [link[k] EXCEPT !.state = "used"]
         ELSE link[k]]

\* A password chosen by its owner: the temporary one is over, and so is a lock.
ChoosePassword(a, row) ==
  /\ user' = [user EXCEPT ![a] = [row EXCEPT !.password = @ + 1, !.temporary = FALSE,
                                             !.failures = 0, !.locked = FALSE]]
  /\ wrong' = [wrong EXCEPT ![a] = 0]
==============================================================================
