-------------------------------- MODULE Store --------------------------------
(***************************************************************************)
(* What the handlers share: the rows of the PostgreSQL tables they write,  *)
(* the mobile-money operator, and the table of handler invocations.        *)
(*                                                                         *)
(* Transactions run at READ COMMITTED and update rows by primary key       *)
(* alone, so nothing checked before a transaction is checked again in it.  *)
(* A handler is therefore several steps: it reads and decides (the step    *)
(* that begins the request), then commits what it decided.  Between two    *)
(* steps any other request may commit.  `requests' keeps what a request    *)
(* has read and which step comes next.                                     *)
(***************************************************************************)
EXTENDS OrderStatus, Integers, FiniteSets

CONSTANTS
  Orders,        \* order ids
  Drivers,       \* driver profile ids
  Requests,      \* handler slots: each serves one request at a time
  NoOrder,       \* absence of an order in a request
  NoDriver,      \* a null driverId
  Shapes,        \* what customers may order, a subset of OrderShapes
  UsageLimit,    \* promotion.usageLimit of the one promotion
  MaxInFlight,   \* bound: requests running at once (1 = one after the other)
  MaxCalls,      \* bound: requests served in a behaviour
  Ops            \* the routes exercised by an instance

ASSUME StoreAssumption ==
  /\ NoOrder \notin Orders
  /\ NoDriver \notin Drivers
  /\ Shapes \subseteq OrderShapes
  /\ \A shape \in Shapes : shape.channel = "POS" => ~ shape.coupon /\ shape.type # "DELIVERY"
  /\ UsageLimit \in Nat
  /\ MaxInFlight \in Nat /\ MaxCalls \in Nat

VARIABLES
  order,      \* orders: status, copied payment status, reason, age, shape...
  history,    \* the status of the latest order_status_history row
  payment,    \* payments.status
  delivery,   \* deliveries: status and driverId
  driver,     \* driver_profiles: isOnline, isAvailable; users.status
  coupon,     \* promotions.usageCount and the coupon_usages rows
  profile,    \* customer_profiles: ordersCount, cancelledOrders, totalSpent
  deducted,   \* ledger: stock deductions written for an order
  everPaid,   \* ledger: a payment was once recorded as collected
  announced,  \* ledger: the kitchen was told of the order
  operator,   \* external: operation at the operator and outcomes it announced
  perimees,   \* expireUnpaid: ids selected by the running cron job
  calls,      \* how many requests have arrived
  requests    \* what each request has read, and its next step

orderVars   == <<order, history>>
moneyVars   == <<payment, everPaid>>
ledgerVars  == <<coupon, profile>>
fleetVars   == <<delivery, driver>>
kitchenVars == <<deducted, announced>>
tables == <<orderVars, moneyVars, ledgerVars, fleetVars, kitchenVars, operator, perimees>>
vars == <<order, history, payment, delivery, driver, coupon, profile, deducted,
          everPaid, announced, operator, perimees, calls, requests>>

(***************************************************************************)
(* Rows                                                                    *)
(***************************************************************************)
OrderRows == [status : OrderStatuses \union {"ABSENT"},
              paymentStatus : PaymentStatuses, reason : Reasons,
              consumed : BOOLEAN,                  \* stockConsumedAt is set
              age : {"FRESH", "LATE", "STALE"},    \* past 10 and past 45 minutes
              shape : OrderShapes]

DeliveryRows == [status : DELIVERY_ACTIVE \union DELIVERY_TERMINAL \union {"ABSENT"},
                 driver : Drivers \union {NoDriver}]

AccountStatuses == {"ACTIVE", "INACTIVE", "SUSPENDED"}

DriverRows == [online : BOOLEAN, available : BOOLEAN, status : AccountStatuses]

Outcomes == {"paid", "failed"}

OperatorRows == [state : {"none", "open"} \union Outcomes, said : SUBSET Outcomes]

CouponRows == [used : Int, rows : SUBSET Orders]

ProfileRows == [placed : Int, cancelled : Int, spent : Int]

(***************************************************************************)
(* Requests.  next names the step a request is about to take; seen holds   *)
(* the facts its last read established and its commit relies on; back is   *)
(* the step a called handler returns to.                                   *)
(***************************************************************************)
Steps == {"idle",
          "createCommit", "statusCommit", "cancelCommit", "consumeRead",
          "consumeWrite", "systemRead", "systemCommit",
          "initiateWrite", "initiateCopy", "confirmRead", "confirmTx",
          "confirmCommit", "announce", "reconcile", "ask", "callback",
          "failCommit", "refundCommit", "abandonRead", "abandonTx",
          "abandonCommit", "assignCommit", "moveCommit", "completeRead",
          "declineCommit", "availabilityCommit", "driverStatusCommit"}

Callers == {"idle", "announce", "abandonRead", "completeRead"}

Facts == {"delivery", "ready", "paymentPending", "cancelled", "revivable",
          "pending", "active"}

Presences == {"ONLINE", "OFFLINE", "AVAILABLE", "PAUSED"}

Targets == OrderStatuses \union DELIVERY_ACTIVE \union DELIVERY_TERMINAL
             \union Outcomes \union Presences \union AccountStatuses \union {"none"}

RequestRows == [next : Steps, order : Orders \union {NoOrder}, target : Targets,
                driver : Drivers \union {NoDriver}, previous : Drivers \union {NoDriver},
                seen : SUBSET Facts, back : Callers]

\* What a request must hold at the steps that write it to a row.
DriverSteps == {"availabilityCommit", "driverStatusCommit"}

wellFormed(row) ==
  /\ row.next \notin DriverSteps \union {"idle"} => row.order \in Orders
  /\ row.next \in DriverSteps => row.back = "idle"
  /\ row.next \in DriverSteps \union {"assignCommit", "declineCommit"} => row.driver \in Drivers
  /\ row.next \in {"statusCommit", "systemRead", "systemCommit"} => row.target \in OrderStatuses
  /\ row.next = "moveCommit" => row.target \in DELIVERY_ACTIVE \union DELIVERY_TERMINAL
  /\ row.next = "driverStatusCommit" => row.target \in AccountStatuses

Idle == [next |-> "idle", order |-> NoOrder, target |-> "none", driver |-> NoDriver,
         previous |-> NoDriver, seen |-> {}, back |-> "idle"]

On(step, o) == [Idle EXCEPT !.next = step, !.order = o]

Towards(step, o, target) == [On(step, o) EXCEPT !.target = target]

InFlight == {r \in Requests : requests[r].next # "idle"}

\* The cron job, while it runs, is one more actor in flight.
Busy == Cardinality(InFlight) + (IF perimees = {} THEN 0 ELSE 1)

\* A request of route op arrives, its guards hold, and it goes on as row.
Begin(r, op, row) ==
  /\ op \in Ops
  /\ requests[r].next = "idle"
  /\ Busy < MaxInFlight /\ calls < MaxCalls
  /\ calls' = calls + 1
  /\ requests' = [requests EXCEPT ![r] = row]

At(r, step) == requests[r].next = step

Continue(r, row) == requests' = [requests EXCEPT ![r] = row] /\ UNCHANGED calls

Finish(r) == Continue(r, Idle)

\* Mutant: the caller goes on without the order it was serving.
ReturnWithoutOrder(r) == Continue(r, [Idle EXCEPT !.next = requests[r].back])

\* A called handler returns to the step its caller goes on with.
Return(r) ==
  IF requests[r].back = "idle" THEN Finish(r)
                               ELSE Continue(r, On(requests[r].back, requests[r].order))

\* The row lock confirm and abandon hold on a payment between the update that
\* opens their transaction and its commit: nobody else writes that row.
PaymentUnlocked(o) ==
  \A r \in Requests :
    ~ (requests[r].order = o /\ requests[r].next \in {"confirmCommit", "abandonCommit"})

(***************************************************************************)
(* Writes that several handlers share.                                     *)
(***************************************************************************)
exists(o) == order[o].status # "ABSENT"

\* customerId is set: an online order has an account, a counter sale has none.
account(o) == order[o].shape.channel = "ONLINE"

WriteStatus(o, status) ==
  /\ order' = [order EXCEPT ![o].status = status]
  /\ history' = [history EXCEPT ![o] = status]

\* The row and the history of an order that is closed without being served.
CloseOrder(o, reason) ==
  /\ order' = [order EXCEPT ![o].status = "CANCELLED", ![o].reason = reason]
  /\ history' = [history EXCEPT ![o] = "CANCELLED"]

TakeCoupon(o) ==
  coupon' = IF order[o].shape.coupon
              THEN [used |-> coupon.used + 1, rows |-> coupon.rows \union {o}]
              ELSE coupon

\* Mutant: the usage row goes, the usage count stays.
ReturnCouponRow(o) == coupon' = [coupon EXCEPT !.rows = @ \ {o}]

ReturnCoupon(o) ==
  coupon' = IF order[o].shape.coupon
              THEN [used |-> coupon.used - 1, rows |-> coupon.rows \ {o}]
              ELSE coupon

\* Moves n orders of the customer from the placed to the cancelled count.
CountCancelled(o, n) ==
  profile' = IF account(o)
               THEN [profile EXCEPT !.placed = @ - n, !.cancelled = @ + n]
               ELSE profile

activeDeliveries(table, d) ==
  {o \in Orders : table[o].driver = d /\ table[o].status \in DELIVERY_ACTIVE}
==============================================================================
