-------------------------------- MODULE Team --------------------------------
(***************************************************************************)
(* What staff do to an account: src/admins/admins.service.ts,              *)
(* src/drivers/drivers.service.ts and src/customers/customers.service.ts.  *)
(* That staff may ask for it is checked at the door (Gate); that a driver  *)
(* carries nothing when he is suspended is in Deliveries.  Mails,          *)
(* notifications and the audit trail are left out.                         *)
(***************************************************************************)
EXTENDS Directory

(***************************************************************************)
(* An account opened for somebody else: a temporary password, to be        *)
(* changed at the first login, or a link with which he chooses his own.    *)
(* The mail leaves inside the transaction: without it there is no account. *)
(***************************************************************************)
OpenAccount(r, op, a, mode, row) ==
  /\ ~ exists(a)
  /\ Begin(r, op, row)
  /\ \/ /\ mode = "temporary_password"
        /\ user' = [user EXCEPT ![a] = [NewUser("ACTIVE", 1) EXCEPT !.temporary = TRUE]]
        /\ UNCHANGED link
     \/ /\ mode = "activation_link"
        /\ user' = [user EXCEPT ![a] = NewUser("PENDING", 0)]
        /\ SendLink(a, "ACTIVATION")
  /\ UNCHANGED <<session, override, cache, redis, wrong, opened>>

\* The permissions come in a second transaction: if they are refused, the
\* account stays, with those of its role.
CreateAdmin(r, a, mode) ==
  /\ RoleOf[a] = "ADMIN"
  /\ \/ OpenAccount(r, "createAdmin", a, mode, Idle)
     \/ \E list \in Lists :
          OpenAccount(r, "createAdmin", a, mode, [On("grantTx", a) EXCEPT !.wanted = list])

CreateDriver(r, a, mode) ==
  RoleOf[a] = "DRIVER" /\ OpenAccount(r, "createDriver", a, mode, Idle)

(***************************************************************************)
(* Individual permissions: the list replaces what the account had.         *)
(***************************************************************************)
manageable(a) == RoleOf[a] = "ADMIN" /\ present(a)

\* The former list is read first, for the audit trail, as any request reads it.
SetPermissions(r, a, list) ==
  /\ manageable(a)
  /\ Begin(r, "setPermissions", [On("cacheGet", a) EXCEPT !.wanted = list])
  /\ UNCHANGED tables

\* Mutant: the cache keeps what the account held.
GrantTxForgetful(r) ==
  LET a == requests[r].account
      list == requests[r].wanted
  IN
  /\ At(r, "grantTx")
  /\ override' = IF delegable(list) THEN [override EXCEPT ![a] = overridesFor(list)]
                                    ELSE override
  /\ Finish(r)
  /\ UNCHANGED <<user, session, link, cache, redis, wrong, opened>>

\* Mutant: any list is given.
GrantTxUnchecked(r) ==
  LET a == requests[r].account IN
  /\ At(r, "grantTx")
  /\ override' = [override EXCEPT ![a] = overridesFor(requests[r].wanted)]
  /\ GoTo(r, "invalidate")
  /\ UNCHANGED <<user, session, link, cache, redis, wrong, opened>>

GrantTx(r) ==
  LET a == requests[r].account
      list == requests[r].wanted
  IN
  /\ At(r, "grantTx")
  /\ \/ /\ delegable(list)
        /\ override' = [override EXCEPT ![a] = overridesFor(list)]
        /\ GoTo(r, "invalidate")
     \/ /\ ~ delegable(list)
        /\ Finish(r) /\ UNCHANGED override
  /\ UNCHANGED <<user, session, link, cache, redis, wrong, opened>>

\* A deletion that does not reach Redis is swallowed.
Invalidate(r) ==
  /\ At(r, "invalidate")
  /\ cache' = IF redis THEN [cache EXCEPT ![requests[r].account] = Miss] ELSE cache
  /\ Finish(r)
  /\ UNCHANGED <<user, session, link, override, redis, wrong, opened>>

(***************************************************************************)
(* Status and removal                                                      *)
(***************************************************************************)
\* The new status is committed, then the sessions of an account that is no
\* longer active fall.
WriteStatus(r, op, a, row) ==
  /\ Begin(r, op, IF row.status = "ACTIVE" THEN Idle ELSE On("revokeAll", a))
  /\ user' = [user EXCEPT ![a] = row]
  /\ UNCHANGED <<session, link, override, cache, redis, wrong, opened>>

SetAdminStatus(r, a, status) ==
  manageable(a) /\ WriteStatus(r, "adminStatus", a, [user[a] EXCEPT !.status = status])

SetCustomerStatus(r, a, status) ==
  /\ RoleOf[a] = "CUSTOMER" /\ present(a)
  /\ WriteStatus(r, "customerStatus", a, [user[a] EXCEPT !.status = status])

\* Mutant: the driver stays on line.
SetDriverStatusOnline(r, a, status) ==
  /\ RoleOf[a] = "DRIVER" /\ exists(a)
  /\ WriteStatus(r, "driverStatus", a, [user[a] EXCEPT !.status = status])

\* A removed driver is found as well as another.
SetDriverStatus(r, a, status) ==
  /\ RoleOf[a] = "DRIVER" /\ exists(a)
  /\ WriteStatus(r, "driverStatus", a,
       [user[a] EXCEPT !.status = status, !.online = @ /\ status = "ACTIVE"])

removedRow(a) == [user[a] EXCEPT !.removed = TRUE, !.status = "INACTIVE", !.online = FALSE]

RemoveAdmin(r, a) ==
  /\ manageable(a)
  /\ Begin(r, "removeAdmin", On("removeRevoke", a))
  /\ user' = [user EXCEPT ![a] = removedRow(a)]
  /\ UNCHANGED <<session, link, override, cache, redis, wrong, opened>>

RemoveRevoke(r) ==
  /\ At(r, "removeRevoke")
  /\ Revoke(sessionsOf(requests[r].account))
  /\ GoTo(r, "invalidate")
  /\ UNCHANGED <<user, link, override, cache, redis, wrong, opened>>

RemoveDriver(r, a) ==
  /\ RoleOf[a] = "DRIVER" /\ exists(a)
  /\ WriteStatus(r, "removeDriver", a, removedRow(a))

\* A driver's link is sent again even when he was removed.
ResendActivation(r, a) ==
  /\ user[a].status = "PENDING"
  /\ \/ manageable(a)
     \/ RoleOf[a] = "DRIVER" /\ exists(a)
  /\ Begin(r, "resendActivation", Idle)
  /\ SendLink(a, "ACTIVATION")
  /\ UNCHANGED <<user, session, override, cache, redis, wrong, opened>>

\* DriversService.updateAvailability, once he is let in.
GoOnline(r, a) ==
  /\ RoleOf[a] = "DRIVER" /\ signedIn(a) /\ ~ user[a].temporary
  /\ Begin(r, "goOnline", Idle)
  /\ user' = [user EXCEPT ![a].online = TRUE]
  /\ UNCHANGED <<session, link, override, cache, redis, wrong, opened>>

TeamNext ==
  \E r \in Requests :
    \/ \E a \in Accounts :
         \/ \E mode \in {"temporary_password", "activation_link"} :
              CreateAdmin(r, a, mode) \/ CreateDriver(r, a, mode)
         \/ \E list \in Lists : SetPermissions(r, a, list)
         \/ \E status \in Statuses : \/ SetAdminStatus(r, a, status)
                                     \/ SetCustomerStatus(r, a, status)
                                     \/ SetDriverStatus(r, a, status)
         \/ RemoveAdmin(r, a) \/ RemoveDriver(r, a)
         \/ ResendActivation(r, a) \/ GoOnline(r, a)
    \/ GrantTx(r) \/ Invalidate(r) \/ RemoveRevoke(r)
==============================================================================
