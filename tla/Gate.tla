-------------------------------- MODULE Gate --------------------------------
(***************************************************************************)
(* The way into a handler: the guards src/app.module.ts mounts, in their   *)
(* order (token, temporary password, role, permission), and the checks     *)
(* three handlers of src/orders make themselves; JwtStrategy, which reads  *)
(* the account again at every request; the permissions and their cache     *)
(* (src/rbac/permissions.service.ts, src/redis/redis.service.ts).          *)
(* An access token names an account for a quarter of an hour: TLC chooses  *)
(* whose token a request shows.                                            *)
(***************************************************************************)
EXTENDS Directory

CONSTANT
  Doors          \* the routes an instance knocks at

ASSUME GateAssumption == Doors \subseteq AllRoutes

(***************************************************************************)
(* Checks made by the handler, for the branch of the back office: one of   *)
(* these permissions, according to the status asked for.                   *)
(***************************************************************************)
TRANSITION_PERMISSION ==
  [status \in {"CONFIRMED", "PREPARING", "READY", "ASSIGNED", "OUT_FOR_DELIVERY", "DELIVERED",
               "CANCELLED"} |->
     CASE status = "ASSIGNED"  -> "ORDERS_ASSIGN_DRIVER"
       [] status = "CANCELLED" -> "ORDERS_CANCEL"
       [] OTHER                -> "ORDERS_UPDATE_STATUS"]

checkedInside(route) ==
  CASE route.route = "GET orders"              -> {"ORDERS_READ"}
    [] route.route = "POST orders/:id/cancel"  -> {TRANSITION_PERMISSION["CANCELLED"]}
    [] route.route = "PATCH orders/:id/status" ->
         {TRANSITION_PERMISSION[status] : status \in DOMAIN TRANSITION_PERMISSION}
    [] OTHER                                   -> {}

(***************************************************************************)
(* The guards.  An anonymous request has no account.                       *)
(***************************************************************************)
passwordGuard(route, row) == route.access = "pending" \/ ~ row.temporary

rolesGuard(route, role) == route.roles = {} \/ role \in route.roles

permissionsGuard(route, role, held) ==
  \/ route.permissions = {} \/ role = "SUPER_ADMIN"
  \/ route.mode = "all" /\ route.permissions \subseteq held
  \/ route.mode = "any" /\ route.permissions \cap held # {}

handlerCheck(route, role, held) ==
  /\ role = "ADMIN" /\ checkedInside(route) # {} => checkedInside(route) \cap held # {}
  /\ role = "DRIVER" => route.route # "POST orders/:id/cancel"

(***************************************************************************)
(* One request                                                             *)
(***************************************************************************)
Knock(r, a, route) ==
  /\ Begin(r, "enter",
       IF route.access = "public"
         THEN [Idle EXCEPT !.next = "inside", !.route = route]
         ELSE [Idle EXCEPT !.next = "validate", !.account = a, !.route = route])
  /\ UNCHANGED tables

\* JwtStrategy.validate: only an ADMIN has permissions to be computed.
admitted(a) == present(a) /\ user[a].status = "ACTIVE"

Validate(r) ==
  LET a == requests[r].account IN
  /\ At(r, "validate")
  /\ \/ /\ admitted(a)
        /\ requests' = [requests EXCEPT
             ![r].seen = user[a],
             ![r].permissions = IF RoleOf[a] = "SUPER_ADMIN" THEN PERMISSIONS ELSE {},
             ![r].next = IF RoleOf[a] = "ADMIN" THEN "cacheGet" ELSE "guards"]
        /\ UNCHANGED calls
     \/ /\ ~ admitted(a) /\ requests[r].route.access = "optional"
        /\ requests' = [requests EXCEPT ![r].next = "inside", ![r].account = NoAccount]
        /\ UNCHANGED calls
     \/ ~ admitted(a) /\ requests[r].route.access # "optional" /\ Finish(r)
  /\ UNCHANGED tables

\* What the permissions were read for: the guards, or a new list.
afterRead(r) == IF requests[r].route = Nowhere THEN "grantTx" ELSE "guards"

hit(a) == redis /\ cache[a].held

CacheGet(r) ==
  LET a == requests[r].account IN
  /\ At(r, "cacheGet")
  /\ \/ /\ hit(a)
        /\ requests' = [requests EXCEPT ![r].permissions = cache[a].permissions, ![r].next = afterRead(r)]
        /\ UNCHANGED calls
     \/ ~ hit(a) /\ GoTo(r, "cacheFill")
  /\ UNCHANGED tables

CacheFill(r) ==
  LET a == requests[r].account IN
  /\ At(r, "cacheFill")
  /\ requests' = [requests EXCEPT ![r].permissions = effective(RoleOf[a], override[a]),
                                  ![r].next = "cacheSet"]
  /\ UNCHANGED <<tables, calls>>

\* A write that does not reach Redis is swallowed.
CacheSet(r) ==
  /\ At(r, "cacheSet")
  /\ cache' = IF redis THEN [cache EXCEPT ![requests[r].account] =
                              [held |-> TRUE, permissions |-> requests[r].permissions]]
                       ELSE cache
  /\ GoTo(r, afterRead(r))
  /\ UNCHANGED <<user, session, link, override, redis, wrong, opened>>

passes(route, role, row, held) ==
  /\ passwordGuard(route, row) /\ rolesGuard(route, role)
  /\ permissionsGuard(route, role, held) /\ handlerCheck(route, role, held)

Guards(r) ==
  LET q == requests[r] IN
  /\ At(r, "guards")
  /\ \/ passes(q.route, RoleOf[q.account], q.seen, q.permissions) /\ GoTo(r, "inside")
     \/ ~ passes(q.route, RoleOf[q.account], q.seen, q.permissions) /\ Finish(r)
  /\ UNCHANGED tables

Leave(r) == At(r, "inside") /\ Finish(r) /\ UNCHANGED tables

(***************************************************************************)
(* Redis                                                                   *)
(***************************************************************************)
\* Mutant: an entry written without an expiry.
CacheNeverExpires(a) == FALSE /\ UNCHANGED vars

\* CACHE_TTL_SECONDS.
CacheExpires(a) ==
  /\ cache[a].held
  /\ cache' = [cache EXCEPT ![a] = Miss]
  /\ UNCHANGED <<user, session, link, override, redis, wrong, opened, calls, requests>>

RedisFails ==
  /\ "outage" \in Ops /\ redis
  /\ redis' = FALSE
  /\ UNCHANGED <<user, session, link, override, cache, wrong, opened, calls, requests>>

RedisReturns ==
  /\ ~ redis
  /\ redis' = TRUE
  /\ UNCHANGED <<user, session, link, override, cache, wrong, opened, calls, requests>>

GateNext ==
  \/ \E r \in Requests :
       \/ \E a \in Accounts, route \in Doors : Knock(r, a, route)
       \/ Validate(r) \/ CacheGet(r) \/ CacheFill(r) \/ CacheSet(r) \/ Guards(r) \/ Leave(r)
  \/ \E a \in Accounts : CacheExpires(a)
  \/ RedisFails \/ RedisReturns
==============================================================================
