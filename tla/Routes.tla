-------------------------------- MODULE Routes --------------------------------
(***************************************************************************)
(* The routes of the API, one definition per controller: which guards each *)
(* declares.  A decorator on the handler replaces the one on its class.    *)
(* What a handler then does is in the module of its component; the         *)
(* documentation decorators and the columns of the exports are left out.   *)
(***************************************************************************)
EXTENDS Catalogue

BACK_OFFICE == {"ADMIN", "SUPER_ADMIN"}
Owner    == {"SUPER_ADMIN"}
Customer == {"CUSTOMER"}
Courier  == {"DRIVER"}

\* access: "public" (no token is read), "optional" (read if present), "pending"
\* (open while a temporary password is to be changed), or "user".
Declare(access, roles, permissions, mode, names) ==
  {[route |-> name, access |-> access, roles |-> roles, permissions |-> permissions,
    mode |-> mode] : name \in names}

Open(names)         == Declare("public", {}, {}, "all", names)
Recognised(names)   == Declare("optional", {}, {}, "all", names)
WhilePending(names) == Declare("pending", {}, {}, "all", names)
SignedIn(names)     == Declare("user", {}, {}, "all", names)
For(roles, names)   == Declare("user", roles, {}, "all", names)
Staff(permissions, names)     == Declare("user", BACK_OFFICE, permissions, "all", names)
StaffAny(permissions, names)  == Declare("user", BACK_OFFICE, permissions, "any", names)
OwnerWith(permissions, names) == Declare("user", Owner, permissions, "all", names)

AddressesRoutes ==
  For(BACK_OFFICE \union Customer, {"GET addresses", "POST addresses", "GET addresses/:id",
                                    "PATCH addresses/:id", "PATCH addresses/:id/default",
                                    "DELETE addresses/:id"})

AdminsRoutes ==
  OwnerWith({"USERS_READ"}, {"GET administrators", "GET administrators/:id"})
    \union OwnerWith({"USERS_CREATE"}, {"POST administrators",
                                        "POST administrators/:id/resend-activation"})
    \union OwnerWith({"USERS_UPDATE"}, {"PATCH administrators/:id"})
    \union OwnerWith({"USERS_SUSPEND"}, {"PATCH administrators/:id/status"})
    \union OwnerWith({"USERS_PERMISSIONS"}, {"PATCH administrators/:id/permissions"})
    \union OwnerWith({"USERS_DELETE"}, {"DELETE administrators/:id"})

AuditRoutes ==
  Staff({"AUDIT_READ"}, {"GET audit-logs", "GET audit-logs/actions",
                         "GET audit-logs/modules"})
    \union Staff({"AUDIT_EXPORT"}, {"GET audit-logs/export"})

PublicAuthRoutes ==
  Open({"POST auth/register", "POST auth/login", "POST auth/refresh"})

AccountRoutes ==
  WhilePending({"POST auth/logout", "POST auth/change-password", "GET auth/me"})
    \union Open({"POST auth/forgot-password", "POST auth/reset-password",
                 "POST auth/activate"})
    \union SignedIn({"PATCH auth/me", "GET auth/sessions", "DELETE auth/sessions/:id",
                     "POST auth/devices", "DELETE auth/devices/:id"})

CartsRoutes ==
  For(Customer, {"GET cart", "POST cart/items", "PATCH cart/items/:id",
                 "DELETE cart/items/:id", "DELETE cart"})

ChapChapWebhookRoutes ==
  Open({"POST v1/webhooks/chapchap"})

CustomersRoutes ==
  Staff({"CUSTOMERS_READ"}, {"GET customers", "GET customers/:id",
                             "GET customers/:id/summary"})
    \union Staff({"CUSTOMERS_EXPORT"}, {"GET customers/export"})
    \union Staff({"CUSTOMERS_READ", "ORDERS_READ"}, {"GET customers/:id/orders"})
    \union Staff({"CUSTOMERS_UPDATE"}, {"PATCH customers/:id"})
    \union Staff({"CUSTOMERS_SUSPEND"}, {"PATCH customers/:id/status"})

CustomerProfileRoutes ==
  For(Customer, {"GET me", "PATCH me"})

DeliveriesRoutes ==
  Staff({"DELIVERIES_READ"}, {"GET deliveries", "GET deliveries/:id"})
    \union Staff({"DELIVERIES_TRACK"}, {"GET deliveries/active",
                                        "GET deliveries/:id/trail"})
    \union Staff({"DELIVERIES_UPDATE"}, {"PATCH deliveries/:id/status",
                "POST deliveries/:id/fail"})

\* Mutant: the role alone opens the assignment.
OrderAssignmentRoutesByRole ==
  For(BACK_OFFICE, {"POST orders/:id/assign", "GET orders/:id/assignable-drivers"})

OrderAssignmentRoutes ==
  Staff({"ORDERS_ASSIGN_DRIVER"}, {"POST orders/:id/assign",
                                   "GET orders/:id/assignable-drivers"})

DriverDeliveriesRoutes ==
  For(Courier, {"GET driver/deliveries", "GET driver/deliveries/:id",
                "POST driver/deliveries/:id/accept", "POST driver/deliveries/:id/decline",
                "POST driver/deliveries/:id/arrived-restaurant",
                "POST driver/deliveries/:id/pickup", "POST driver/deliveries/:id/start",
                "POST driver/deliveries/:id/arrived", "POST driver/deliveries/:id/complete",
                "POST driver/deliveries/:id/fail", "POST driver/location"})

OrderDriverLocationRoutes ==
  For(Roles, {"GET orders/:id/driver-location"})

DriversRoutes ==
  Staff({"DRIVERS_READ"}, {"GET drivers", "GET drivers/assignable", "GET drivers/:id"})
    \union Staff({"DRIVERS_CREATE"}, {"POST drivers", "POST drivers/:id/resend-activation"})
    \union Staff({"DRIVERS_UPDATE"}, {"PATCH drivers/:id"})
    \union Staff({"DRIVERS_SUSPEND"}, {"PATCH drivers/:id/status"})
    \union Staff({"DRIVERS_DELETE"}, {"DELETE drivers/:id"})

DriverProfileRoutes ==
  For(Courier, {"GET driver/dashboard", "GET driver/stats", "PATCH driver/availability"})

EmployeesRoutes ==
  Staff({"EMPLOYEES_READ"}, {"GET employees", "GET employees/positions",
                             "GET employees/payroll", "GET employees/:id"})
    \union Staff({"PAYROLL_MANAGE"}, {"POST employees/payroll/generate"})
    \union Staff({"EMPLOYEES_MANAGE"}, {"POST employees", "PATCH employees/:id",
                                        "DELETE employees/:id"})

ExpensesRoutes ==
  Staff({"FINANCE_READ"}, {"GET expenses", "GET expenses/due", "GET expenses/:id"})
    \union Staff({"EXPENSES_MANAGE"}, {"POST expenses", "PATCH expenses/:id",
                                       "PATCH expenses/:id/settle", "DELETE expenses/:id"})

IncomesRoutes ==
  Staff({"FINANCE_READ"}, {"GET incomes"})
    \union Staff({"INCOMES_MANAGE"}, {"POST incomes", "PATCH incomes/:id",
                                      "DELETE incomes/:id"})

FavoritesRoutes ==
  For(Customer, {"GET favorites", "GET favorites/ids", "POST favorites/:id",
                 "DELETE favorites/:id"})

FinanceRoutes ==
  Staff({"FINANCE_READ"}, {"GET finance/summary", "GET finance/overview",
                           "GET finance/ledger"})

FinanceExportRoutes ==
  Staff({"FINANCE_READ"}, {"GET finance/monthly-report"})
    \union Staff({"FINANCE_EXPORT"}, {"GET finance/monthly-report/export",
                                      "GET finance/ledger/export"})

GeoRoutes ==
  Open({"GET geo/guinee"})

HealthRoutes ==
  Open({"GET health", "GET health/live", "GET health/ready"})

CategoriesRoutes ==
  Recognised({"GET categories", "GET categories/:id"})
    \union Staff({"CATEGORIES_MANAGE"}, {"POST categories", "PATCH categories/:id",
                "DELETE categories/:id"})

MenuItemsRoutes ==
  Recognised({"GET menu-items", "GET menu-items/highlights", "GET menu-items/:id"})
    \union Staff({"MENU_CREATE"}, {"POST menu-items"})
    \union Staff({"MENU_UPDATE"}, {"PATCH menu-items/:id"})
    \union Staff({"MENU_AVAILABILITY"}, {"PATCH menu-items/:id/availability"})
    \union Staff({"MENU_DELETE"}, {"DELETE menu-items/:id"})

NotificationsRoutes ==
  SignedIn({"GET notifications", "GET notifications/unread-count",
            "PATCH notifications/read-all", "PATCH notifications/:id/read",
            "DELETE notifications/:id"})

OrderListRoutes ==
  For(Customer, {"POST orders", "POST orders/quote"})
    \union SignedIn({"GET orders"})
    \union Staff({"ORDERS_EXPORT"}, {"GET orders/export"})

OrderRoutes ==
  SignedIn({"GET orders/:id", "GET orders/:id/tracking", "GET orders/:id/review",
            "POST orders/:id/cancel"})
    \union For(BACK_OFFICE, {"PATCH orders/:id/status"})
    \union For(Customer, {"POST orders/:id/review"})

PaymentListRoutes ==
  Staff({"PAYMENTS_READ"}, {"GET payments", "GET payments/provider"})
    \union Staff({"PAYMENTS_EXPORT"}, {"GET payments/export"})
    \union SignedIn({"GET payments/order/:id", "GET payments/:id"})

PaymentRoutes ==
  For(Customer, {"POST payments/order/:id/initiate", "POST payments/:id/abandon"})
    \union SignedIn({"POST payments/:id/confirm"})
    \union Staff({"PAYMENTS_READ"}, {"POST payments/:id/fail"})
    \union Staff({"PAYMENTS_REFUND"}, {"POST payments/:id/refund"})

PermissionsRoutes ==
  StaffAny({"USERS_PERMISSIONS", "USERS_READ"}, {"GET permissions"})

PosRoutes ==
  Staff({"POS_SELL"}, {"POST pos/quote", "POST pos/orders", "GET pos/today"})

PromotionsRoutes ==
  Staff({"PROMOTIONS_READ"}, {"GET promotions", "GET promotions/:id"})
    \union For(BACK_OFFICE \union Customer, {"GET promotions/active",
                "GET promotions/check/:id"})
    \union Staff({"PROMOTIONS_CREATE"}, {"POST promotions"})
    \union Staff({"PROMOTIONS_UPDATE"}, {"PATCH promotions/:id",
                "PATCH promotions/:id/active"})
    \union Staff({"PROMOTIONS_DELETE"}, {"DELETE promotions/:id"})

RecipesRoutes ==
  Staff({"MENU_READ"}, {"GET menu/items/:id/recipe"})
    \union Staff({"STOCK_MANAGE"}, {"PUT menu/items/:id/recipe"})

DashboardRoutes ==
  Staff({"REPORTS_READ"}, {"GET dashboard"})
    \union OwnerWith({"REPORTS_READ"}, {"GET dashboard/super-admin"})

SuperAdminDashboardRoutes ==
  OwnerWith({"REPORTS_READ"}, {"GET super-admin/dashboard"})

ReportsRoutes ==
  Staff({"REPORTS_READ"}, {"GET reports", "GET reports/sales", "GET reports/payments",
                           "GET reports/deliveries"})
    \union Staff({"REPORTS_EXPORT"}, {"GET reports/export"})

RestaurantsRoutes ==
  For(BACK_OFFICE, {"GET restaurants", "GET restaurants/:id"})
    \union OwnerWith({"SETTINGS_SYSTEM"}, {"POST restaurants", "PATCH restaurants/:id",
                "DELETE restaurants/:id"})

ReviewsRoutes ==
  For(Customer, {"GET reviews/mine/dishes"})

SearchRoutes ==
  SignedIn({"GET search"})
    \union For(BACK_OFFICE, {"GET search/counts"})

SettingsRoutes ==
  Staff({"SETTINGS_READ"}, {"GET settings/restaurant"})
    \union Staff({"SETTINGS_UPDATE"}, {"PATCH settings/restaurant"})
    \union OwnerWith({"SETTINGS_SYSTEM"}, {"GET settings/system", "PATCH settings/system"})

RestaurantRoutes ==
  Recognised({"GET restaurant", "GET restaurant/locations", "GET restaurant/locations/:id"})

SuppliersRoutes ==
  Staff({"STOCK_READ"}, {"GET suppliers", "GET suppliers/options", "GET suppliers/:id"})
    \union Staff({"SUPPLIERS_MANAGE"}, {"POST suppliers", "PATCH suppliers/:id",
                                        "DELETE suppliers/:id"})

StockRoutes ==
  Staff({"STOCK_READ"}, {"GET stock/summary", "GET stock/alerts", "GET stock/movements",
                         "GET stock/items", "GET stock/items/:id"})
    \union Staff({"STOCK_MANAGE"}, {"POST stock/movements", "POST stock/items",
                                    "PATCH stock/items/:id", "DELETE stock/items/:id"})

PurchasesRoutes ==
  Staff({"STOCK_READ"}, {"GET purchases", "GET purchases/:id", "GET purchases/:id/outcome"})
    \union Staff({"PURCHASES_MANAGE"}, {"POST purchases", "PATCH purchases/:id/settle",
                                        "PATCH purchases/:id/cancel"})

StorageRoutes ==
  SignedIn({"POST storage/avatar"})
    \union StaffAny({"CATEGORIES_MANAGE", "MENU_CREATE", "MENU_UPDATE"}, {"POST storage/menu"})
    \union For(BACK_OFFICE, {"POST storage/restaurant"})
    \union StaffAny({"PROMOTIONS_CREATE", "PROMOTIONS_UPDATE"}, {"POST storage/promotion"})

\* The other node shows the shared secret instead of a token (SyncGuard).
SyncNodeRoutes ==
  Open({"POST sync/push", "GET sync/pull"})

SyncStatusRoutes ==
  Staff({"SETTINGS_READ"}, {"GET sync/status"})
    \union Staff({"SETTINGS_UPDATE"}, {"POST sync/run"})

AllRoutes ==
  AddressesRoutes \union AdminsRoutes \union AuditRoutes \union PublicAuthRoutes \union
    AccountRoutes \union CartsRoutes \union ChapChapWebhookRoutes \union CustomersRoutes
    \union CustomerProfileRoutes \union DeliveriesRoutes \union OrderAssignmentRoutes
    \union DriverDeliveriesRoutes \union OrderDriverLocationRoutes \union DriversRoutes
    \union DriverProfileRoutes \union EmployeesRoutes \union ExpensesRoutes \union
    IncomesRoutes \union FavoritesRoutes \union FinanceRoutes \union FinanceExportRoutes
    \union GeoRoutes \union HealthRoutes \union CategoriesRoutes \union MenuItemsRoutes
    \union NotificationsRoutes \union OrderListRoutes \union OrderRoutes \union
    PaymentListRoutes \union PaymentRoutes \union PermissionsRoutes \union PosRoutes
    \union PromotionsRoutes \union RecipesRoutes \union DashboardRoutes \union
    SuperAdminDashboardRoutes \union ReportsRoutes \union RestaurantsRoutes \union
    ReviewsRoutes \union SearchRoutes \union SettingsRoutes \union RestaurantRoutes
    \union SuppliersRoutes \union StockRoutes \union PurchasesRoutes \union
    StorageRoutes \union SyncNodeRoutes \union SyncStatusRoutes
==============================================================================
