------------------------------ MODULE Catalogue ------------------------------
(***************************************************************************)
(* src/common/constants/permissions.constant.ts: the permissions, those a  *)
(* role holds without being given them, and those nobody may be given; and *)
(* what rbac/permissions.service.ts computes from them.  Labels and        *)
(* descriptions are left out.                                              *)
(***************************************************************************)

Roles == {"CUSTOMER", "DRIVER", "ADMIN", "SUPER_ADMIN"}

\* PERMISSION_CATALOG by module, in the three parts its reader meets.
PeopleCatalog ==
  [users     |-> {"USERS_READ", "USERS_CREATE", "USERS_UPDATE", "USERS_DELETE",
                  "USERS_SUSPEND", "USERS_PERMISSIONS"},
   customers |-> {"CUSTOMERS_READ", "CUSTOMERS_UPDATE", "CUSTOMERS_SUSPEND",
                  "CUSTOMERS_EXPORT"},
   drivers   |-> {"DRIVERS_READ", "DRIVERS_CREATE", "DRIVERS_UPDATE", "DRIVERS_SUSPEND",
                  "DRIVERS_DELETE"}]

SalesCatalog ==
  [menu       |-> {"MENU_READ", "MENU_CREATE", "MENU_UPDATE", "MENU_DELETE",
                   "MENU_AVAILABILITY", "CATEGORIES_MANAGE"},
   orders     |-> {"ORDERS_READ", "ORDERS_UPDATE_STATUS", "ORDERS_ASSIGN_DRIVER",
                   "ORDERS_CANCEL", "ORDERS_EXPORT", "POS_SELL"},
   payments   |-> {"PAYMENTS_READ", "PAYMENTS_REFUND", "PAYMENTS_EXPORT"},
   deliveries |-> {"DELIVERIES_READ", "DELIVERIES_UPDATE", "DELIVERIES_TRACK"},
   promotions |-> {"PROMOTIONS_READ", "PROMOTIONS_CREATE", "PROMOTIONS_UPDATE",
                   "PROMOTIONS_DELETE"}]

HouseCatalog ==
  [stock    |-> {"STOCK_READ", "STOCK_MANAGE", "PURCHASES_MANAGE", "SUPPLIERS_MANAGE"},
   finance  |-> {"FINANCE_READ", "FINANCE_EXPORT", "EXPENSES_MANAGE", "INCOMES_MANAGE"},
   hr       |-> {"EMPLOYEES_READ", "EMPLOYEES_MANAGE", "PAYROLL_MANAGE"},
   reports  |-> {"REPORTS_READ", "REPORTS_EXPORT"},
   settings |-> {"SETTINGS_READ", "SETTINGS_UPDATE", "SETTINGS_SYSTEM"},
   audit    |-> {"AUDIT_READ", "AUDIT_EXPORT"}]

codesOf(catalog) == UNION {catalog[module] : module \in DOMAIN catalog}

PERMISSIONS == codesOf(PeopleCatalog) \union codesOf(SalesCatalog) \union codesOf(HouseCatalog)

\* Writing the card all the houses share.
CATALOG_WRITE_PERMISSIONS ==
  {"MENU_CREATE", "MENU_UPDATE", "MENU_DELETE", "CATEGORIES_MANAGE",
   "PROMOTIONS_CREATE", "PROMOTIONS_UPDATE", "PROMOTIONS_DELETE"}

SUPER_ADMIN_ONLY_PERMISSIONS == PeopleCatalog.users \union {"SETTINGS_SYSTEM"}

\* What an ADMIN holds without being given it: the list of the source is all
\* but these.
NotInTheBase ==
  SUPER_ADMIN_ONLY_PERMISSIONS \union CATALOG_WRITE_PERMISSIONS \union HouseCatalog.audit
    \union {"DRIVERS_DELETE", "EMPLOYEES_MANAGE", "PAYROLL_MANAGE"}

ROLE_PERMISSIONS ==
  [CUSTOMER |-> {}, DRIVER |-> {}, ADMIN |-> PERMISSIONS \ NotInTheBase,
   SUPER_ADMIN |-> PERMISSIONS]

\* The rows of user_permissions of one account: granted beyond the base of its
\* role, withdrawn from it.
OverrideRows == [granted : SUBSET PERMISSIONS, withdrawn : SUBSET PERMISSIONS]

NoOverride == [granted |-> {}, withdrawn |-> {}]

\* The last line takes the reserved permissions back from corrupt rows.
effective(role, row) ==
  IF role = "ADMIN"
    THEN ((ROLE_PERMISSIONS.ADMIN \union row.granted) \ row.withdrawn)
           \ SUPER_ADMIN_ONLY_PERMISSIONS
    ELSE ROLE_PERMISSIONS[role]

\* The rows that give an ADMIN the list a SUPER_ADMIN wants him to have.
overridesFor(requested) ==
  [granted |-> requested \ ROLE_PERMISSIONS.ADMIN,
   withdrawn |-> ROLE_PERMISSIONS.ADMIN \ requested]

\* What setUserPermissions refuses: a reserved permission in the list.
delegable(requested) == requested \cap SUPER_ADMIN_ONLY_PERMISSIONS = {}
==============================================================================
