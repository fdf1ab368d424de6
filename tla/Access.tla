------------------------------- MODULE Access -------------------------------
(***************************************************************************)
(* Accounts, their sessions, their permissions and the way in: what        *)
(* Sessions, Team and Gate do to the tables of Directory, together.        *)
(***************************************************************************)
EXTENDS Sessions, Team, Gate

Init ==
  /\ user = [a \in Accounts |-> NewUser(Opening[a], 1)]
  /\ session = [t \in Tokens |-> NoSession]
  /\ link = [l \in Links |-> NoLink]
  /\ override = [a \in Accounts |-> NoOverride]
  /\ cache = [a \in Accounts |-> Miss]
  /\ redis = TRUE
  /\ wrong = [a \in Accounts |-> 0]
  /\ opened = [l \in Links |-> 0]
  /\ calls = 0
  /\ requests = [r \in Requests |-> Idle]

Next == SessionsNext \/ TeamNext \/ GateNext

Spec == Init /\ [][Next]_vars

(***************************************************************************)
(* The event loop ends what it began, and an entry of Redis expires.       *)
(***************************************************************************)
Proceed(r) ==
  \/ Validate(r) \/ CacheGet(r) \/ CacheFill(r) \/ CacheSet(r) \/ Guards(r) \/ Leave(r)
  \/ GrantTx(r) \/ Invalidate(r)

FairSpec ==
  /\ Spec
  /\ \A r \in Requests : WF_vars(Proceed(r))
  /\ \A a \in Accounts : WF_vars(CacheExpires(a))

TypeOK ==
  /\ user \in [Accounts -> UserRows]
  /\ session \in [Tokens -> SessionRows]
  /\ link \in [Links -> LinkRows]
  /\ override \in [Accounts -> OverrideRows]
  /\ cache \in [Accounts -> CacheRows]
  /\ redis \in BOOLEAN
  /\ wrong \in [Accounts -> Nat]
  /\ opened \in [Links -> Nat]
  /\ calls \in Nat
  /\ requests \in [Requests -> RequestRows]

quiet == InFlight = {}

(***************************************************************************)
(* Sessions                                                                *)
(***************************************************************************)
\* token.service.ts says that a rotation revokes the token it was shown: at
\* rest, a family has at most one token that can be renewed.
OneLivePerFamily ==
  quiet => \A t, u \in Tokens :
             live(t) /\ live(u) /\ session[t].family = session[u].family => t = u

\* auth.service.ts: "Un mot de passe changé ferme toutes les sessions ouvertes".
\* At rest, a session that can be renewed was opened with the present password,
\* however often it was renewed since; an activation, which closes none, excepted.
SessionsOfThisPassword ==
  quiet => \A t \in Tokens :
             live(t) => LET owner == user[session[t].account] IN
                        \/ session[t].password = owner.password
                        \/ owner.activated = owner.password

\* authentication.md: "fermer toutes les sessions à la suspension d'un compte".
\* An account that is not active has no session left, and a driver among them
\* is no longer on line, whichever route closed it.
ClosedHasNoSession ==
  quiet => \A a \in Accounts :
             user[a].status # "ACTIVE" => sessionsOf(a) = {} /\ ~ user[a].online

\* Sessions follow their account: its password, its status, its shift.
SessionsFollowTheAccount == SessionsOfThisPassword /\ ClosedHasNoSession

\* A removed account has no session left and opens no other.
RemovedHasNoSession ==
  quiet => \A a \in Accounts : user[a].removed => sessionsOf(a) = {}

\* The count of failed attempts is that of the wrong passwords since the account
\* last proved itself, and nobody is locked out before MaxAttempts of them.
FailuresCounted ==
  quiet => \A a \in Accounts :
             /\ user[a].failures = wrong[a]
             /\ user[a].locked => wrong[a] >= MaxAttempts

\* A link chooses one password, and an account has one good link of each kind.
LinkOpensOnce ==
  /\ \A l \in Links : opened[l] <= 1
  /\ \A a \in Accounts, purpose \in {"RESET", "ACTIVATION"} :
       Cardinality(unusedLinks(a, purpose)) <= 1

(***************************************************************************)
(* Permissions                                                             *)
(***************************************************************************)
inside(r) == At(r, "inside") /\ requests[r].account # NoAccount

\* permissions.service.ts: "un retrait de permission prend effet sur la requête
\* suivante".  An ADMIN who is inside a route still has what its guard asked.
EntersWithPresentRights ==
  \A r \in Requests :
    inside(r) /\ RoleOf[requests[r].account] = "ADMIN" =>
      permissionsGuard(requests[r].route, "ADMIN",
                       effective("ADMIN", override[requests[r].account]))

\* What an ADMIN may be given: his base, and the lists that hold nothing reserved.
givable == ROLE_PERMISSIONS.ADMIN \union UNION {list \in Lists : delegable(list)}

\* Nobody acts with a permission that no accepted list gave: a list refused for
\* one reserved permission gives none of the others, neither in the table, nor
\* in the cache, nor in a request under way, whatever fails in between.
OnlyWhatWasGiven ==
  \A a \in Accounts :
    RoleOf[a] = "ADMIN" =>
      /\ override[a].granted \subseteq givable
      /\ cache[a].permissions \subseteq givable
      /\ \A r \in Requests :
           requests[r].account = a => requests[r].permissions \subseteq givable

(***************************************************************************)
(* The table of docs/authorization.md: who may do what.  Every right is a  *)
(* set of routes, the roles that need no permission for them, and the      *)
(* permission an ADMIN needs ("" for a right he cannot have).              *)
(***************************************************************************)
Right(routes, roles, permission) ==
  [routes |-> routes, roles |-> roles, permission |-> permission]

Matrix ==
  {Right({"POST orders", "POST orders/quote"}, {"CUSTOMER"}, ""),
   Right({"POST orders/:id/cancel"}, {"CUSTOMER", "SUPER_ADMIN"}, "ORDERS_CANCEL"),
   Right({"POST orders/:id/assign"}, {"SUPER_ADMIN"}, "ORDERS_ASSIGN_DRIVER"),
   Right({"POST payments/:id/refund"}, {"SUPER_ADMIN"}, "PAYMENTS_REFUND"),
   Right({"POST drivers"}, {"SUPER_ADMIN"}, "DRIVERS_CREATE"),
   Right({"DELETE drivers/:id"}, {"SUPER_ADMIN"}, "DRIVERS_DELETE"),
   Right({"PATCH customers/:id"}, {"SUPER_ADMIN"}, "CUSTOMERS_UPDATE"),
   Right({"POST administrators", "PATCH administrators/:id/permissions",
          "PATCH settings/system"}, {"SUPER_ADMIN"}, ""),
   Right({"GET audit-logs"}, {"SUPER_ADMIN"}, "AUDIT_READ"),
   Right({"PATCH settings/restaurant"}, {"SUPER_ADMIN"}, "SETTINGS_UPDATE")}

\* Every request that is inside a route of the table has the right it names.
FollowsTheMatrix ==
  \A r \in Requests, right \in Matrix :
    inside(r) /\ requests[r].route.route \in right.routes =>
      \/ RoleOf[requests[r].account] \in right.roles
      \/ RoleOf[requests[r].account] = "ADMIN" /\ right.permission \in requests[r].permissions

(***************************************************************************)
(* A cache that disagrees with the table is corrected: by an invalidation, *)
(* or because its entry expires, Redis having been away or a reader having *)
(* written late what he had read early.                                    *)
(***************************************************************************)
stale(a) == cache[a].held /\ cache[a].permissions # effective(RoleOf[a], override[a])

StaleCacheEnds == \A a \in Accounts : stale(a) ~> ~ stale(a)
==============================================================================
