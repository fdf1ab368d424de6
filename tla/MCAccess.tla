------------------------------ MODULE MCAccess ------------------------------
(***************************************************************************)
(* Instances of Access.                                                    *)
(***************************************************************************)
EXTENDS Access, TLC

CONSTANTS ada, cira, dodo, r1, r2

RolesOf == ada :> "ADMIN" @@ cira :> "CUSTOMER" @@ dodo :> "DRIVER"
RolesIn(accounts) == [a \in accounts |-> RolesOf[a]]

\* An ADMIN, a customer and a driver, none of whom has an account yet.
Outside      == {ada, cira, dodo}
OutsideRoles == RolesIn(Outside)
NotYet       == [a \in Outside |-> "ABSENT"]

\* One of them alone, to see two of his requests cross.
Alone      == {cira}
AloneRoles == RolesIn(Alone)
AloneFirst == [a \in Alone |-> "ABSENT"]
NoDoors    == {}

SessionOps == {"register", "login", "refresh", "logout", "revokeSession", "forgot", "reset",
               "change", "activate", "time", "createDriver", "driverStatus", "customerStatus",
               "removeDriver", "resendActivation", "goOnline", "createAdmin", "adminStatus",
               "removeAdmin", "setPermissions", "enter"}

BothStatuses == {"ACTIVE", "SUSPENDED"}

\* An ADMIN at work.
House      == {ada}
HouseRoles == RolesIn(House)
AtWork     == [a \in House |-> "ACTIVE"]

GateOps == {"enter", "setPermissions", "removeAdmin", "outage"}

\* Two rights beyond the base and none of the orders; the base without refunds;
\* a list with a reserved permission.
TheLists ==
  {(ROLE_PERMISSIONS.ADMIN \ {"ORDERS_READ", "ORDERS_CANCEL", "ORDERS_ASSIGN_DRIVER"})
      \union {"AUDIT_READ", "DRIVERS_DELETE"},
   ROLE_PERMISSIONS.ADMIN \ {"PAYMENTS_REFUND"},
   ROLE_PERMISSIONS.ADMIN \union {"EMPLOYEES_MANAGE", "USERS_DELETE"}}

\* The routes of the table of rights, and a few of every kind.
RoutesNamed(names) == {route \in AllRoutes : route.route \in names}

TheDoors ==
  RoutesNamed(UNION {right.routes : right \in Matrix}
                \union {"GET orders", "PATCH orders/:id/status", "POST storage/menu",
                        "POST auth/change-password", "GET menu-items", "GET health",
                        "GET customers/:id/orders"})

SomeDoors ==
  RoutesNamed({"GET orders", "POST payments/:id/refund", "POST storage/menu",
               "POST auth/change-password", "GET menu-items"})
==============================================================================
