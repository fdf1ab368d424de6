------------------------------ MODULE Bercail ------------------------------
(***************************************************************************)
(* The life of an order: orders, payments, deliveries and drivers over the *)
(* same rows, with the cron jobs, the operator, the clock, and crashes.    *)
(* The properties are stated here, at the level where the parts interact.  *)
(***************************************************************************)
EXTENDS Orders, Payments, Deliveries

NewOrder(shape) == [status |-> "ABSENT", paymentStatus |-> "PENDING", reason |-> "NONE",
                    consumed |-> FALSE, age |-> "FRESH", shape |-> shape]

Init ==
  /\ \E shapes \in [Orders -> Shapes] : order = [o \in Orders |-> NewOrder(shapes[o])]
  /\ history = [o \in Orders |-> "ABSENT"]
  /\ payment = [o \in Orders |-> "ABSENT"]
  /\ delivery = [o \in Orders |-> [status |-> "ABSENT", driver |-> NoDriver]]
  /\ \E online \in [Drivers -> BOOLEAN] :
       driver = [d \in Drivers |-> [online |-> online[d], available |-> online[d],
                                    status |-> "ACTIVE"]]
  /\ coupon = [used |-> 0, rows |-> {}]
  /\ profile = [placed |-> 0, cancelled |-> 0, spent |-> 0]
  /\ deducted = [o \in Orders |-> 0]
  /\ everPaid = [o \in Orders |-> FALSE]
  /\ announced = [o \in Orders |-> FALSE]
  /\ operator = [o \in Orders |-> [state |-> "none", said |-> {}]]
  /\ perimees = {}
  /\ calls = 0
  /\ requests = [r \in Requests |-> Idle]

(***************************************************************************)
(* A request dies between two of its steps: the process stops, the client  *)
(* of a call times out, or a query fails.  What it committed stays, an     *)
(* open transaction rolls back.  The cron job's loop has no error handler: *)
(* one failure abandons the rest of its batch.                             *)
(***************************************************************************)
Abort(r) ==
  /\ "crash" \in Ops
  /\ requests[r].next # "idle"
  /\ Finish(r)
  /\ UNCHANGED tables

CronCrash ==
  /\ "crash" \in Ops
  /\ perimees # {}
  /\ perimees' = {}
  /\ UNCHANGED <<orderVars, moneyVars, ledgerVars, fleetVars, kitchenVars,
                 operator, calls, requests>>

Next == OrdersNext \/ PaymentsNext \/ DeliveriesNext
          \/ (\E r \in Requests : Abort(r)) \/ CronCrash

Spec == Init /\ [][Next]_vars

\* The steps a request takes once it has arrived: the event loop runs them.
Proceed(r) ==
  \/ CreateCommit(r) \/ UpdateStatusCommit(r) \/ CancelCommit(r)
  \/ ConsumeRead(r) \/ ConsumeWrite(r) \/ SystemRead(r) \/ SystemCommit(r)
  \/ InitiateWrite(r) \/ InitiateCopy(r)
  \/ ConfirmRead(r) \/ ConfirmTx(r) \/ ConfirmCommit(r) \/ Announce(r)
  \/ FailCommit(r) \/ RefundCommit(r)
  \/ AbandonRead(r) \/ AbandonTx(r) \/ AbandonCommit(r)
  \/ Reconcile(r) \/ Ask(r) \/ ApplyCallback(r)
  \/ AssignFails(r) \/ AssignCommit(r) \/ MoveCommit(r) \/ CompleteRead(r)
  \/ DeclineCommit(r) \/ UpdateAvailabilityCommit(r) \/ SetStatusCommit(r)

\* The event loop and the cron scheduler keep running; nothing is assumed of
\* customers, staff, drivers or the operator.
Fairness ==
  /\ \A r \in Requests : WF_vars(Proceed(r))
  /\ WF_vars(ExpireSelect)
  /\ \A o \in Orders : WF_vars(ExpireOne(o))

FairSpec == Spec /\ Fairness

TablesOK ==
  /\ order \in [Orders -> OrderRows]
  /\ history \in [Orders -> OrderStatuses \union {"ABSENT"}]
  /\ payment \in [Orders -> PaymentStatuses \union {"ABSENT"}]
  /\ delivery \in [Orders -> DeliveryRows]
  /\ driver \in [Drivers -> DriverRows]
  /\ coupon \in CouponRows
  /\ profile \in ProfileRows
  /\ deducted \in [Orders -> Nat]
  /\ everPaid \in [Orders -> BOOLEAN]
  /\ announced \in [Orders -> BOOLEAN]
  /\ operator \in [Orders -> OperatorRows]
  /\ perimees \in SUBSET Orders

RequestsOK ==
  /\ calls \in Nat
  /\ requests \in [Requests -> RequestRows]
  /\ \A r \in Requests : wellFormed(requests[r])

\* Every row has its type, and a request holds what its next step writes.
TypeOK == TablesOK /\ RequestsOK

(***************************************************************************)
(* Properties that hold whatever interleaves, and across crashes.          *)
(***************************************************************************)
KitchenStatuses == {"CONFIRMED", "PREPARING", "READY", "ASSIGNED",
                    "OUT_FOR_DELIVERY", "DELIVERED"}

\* "Pas de cuisine sans argent": an order to be settled online is neither
\* announced to the kitchen, nor worked on, nor taken out of the stock, unless
\* its payment was once recorded as collected.
KitchenOnlyAfterMoney ==
  \A o \in Orders :
    onlineToSettle(order[o].shape)
      /\ (order[o].status \in KitchenStatuses \/ deducted[o] > 0 \/ announced[o])
    => everPaid[o]

\* Why KitchenOnlyAfterMoney holds: as long as no payment was collected for an
\* order settled online, no row says it was, no courier has it, and no request
\* that skips the payment guard is under way.
PastTheGuard == {"statusCommit", "consumeRead", "consumeWrite", "systemRead",
                 "systemCommit", "refundCommit", "announce", "assignCommit",
                 "moveCommit", "completeRead", "declineCommit"}

unpaidYet(o) == onlineToSettle(order[o].shape) /\ ~ everPaid[o]

untouched(o) ==
  /\ order[o].status \in {"ABSENT", "PENDING", "CANCELLED"}
  /\ order[o].paymentStatus \notin {"PAID", "REFUNDED"}
  /\ payment[o] \notin {"PAID", "REFUNDED"}
  /\ deducted[o] = 0 /\ ~ announced[o]
  /\ delivery[o] = [status |-> "ABSENT", driver |-> NoDriver]

beforeGuard(row) ==
  /\ row.next \notin PastTheGuard
  /\ row.back \notin {"announce", "completeRead"}
  /\ "delivery" \notin row.seen

NothingStartedUnpaid ==
  \A o \in Orders : unpaidYet(o) =>
    /\ untouched(o)
    /\ \A r \in Requests : requests[r].order = o => beforeGuard(requests[r])

(***************************************************************************)
(* Properties of the handlers taken one at a time.                         *)
(***************************************************************************)
live(o) == order[o].status \notin {"ABSENT", "CANCELLED"}

quiet(o) == \A r \in Requests : requests[r].order # o

\* A promotion's usage count and usage rows are those of the orders that have
\* taken place: a cancellation gives the coupon back once, whichever of the
\* customer, the restaurant, the closed page or the deadline cancelled, and
\* the payment that revives the order takes it again.
CouponLedger ==
  LET holders == {o \in Orders : live(o) /\ order[o].shape.coupon} IN
  coupon = [used |-> Cardinality(holders), rows |-> holders]

\* The customer's counters are those of the orders: each is either placed or
\* cancelled, and moves between the two with the order.
ProfileLedger ==
  LET mine == {o \in Orders : exists(o) /\ account(o)} IN
  /\ profile.placed = Cardinality({o \in mine : live(o)})
  /\ profile.cancelled = Cardinality({o \in mine : ~ live(o)})

\* Both ledgers follow the orders, by whichever of six paths an order ends and
\* however often a late payment revives it.
LedgersBalance == CouponLedger /\ ProfileLedger

\* A payment arriving after the deadline, or after the page was closed: never
\* after a person has cancelled the order.
revived(o) ==
  /\ order[o].status = "CANCELLED" /\ order[o].reason \in {"ABANDON", "EXPIRY"}
  /\ order'[o].status = "PENDING" /\ payment'[o] = "PAID"

\* The order state machine, whoever moves the order - back office, courier,
\* assignment, cron, payment: every move is one of the table, the insertion
\* of the row, or the revival of an order cancelled for want of payment.
StatusMachine ==
  [][\A o \in Orders : order'[o].status # order[o].status =>
       \/ mayTransition(order[o].status, order'[o].status, order[o].shape.type)
       \/ order[o].status = "ABSENT"
       \/ revived(o)]_vars

\* DELIVERED and CANCELLED are terminal, but for the revival.
TerminalStays ==
  [][\A o \in Orders : order[o].status \in TERMINAL_STATUSES =>
       order'[o].status = order[o].status \/ revived(o)]_vars

\* An order a person has cancelled stays cancelled, even if its money arrives.
RefusedStaysRefused ==
  [][\A o \in Orders : order[o].status = "CANCELLED" /\ order[o].reason = "PERSON" =>
       order'[o].status = "CANCELLED"]_vars

\* Only a refund undoes a collected payment.
CollectedUntilRefunded ==
  [][\A o \in Orders : payment[o] = "PAID" => payment'[o] \in {"PAID", "REFUNDED"}]_vars

\* A payment already refunded is not refunded again.
RefundOnce ==
  [][\A r \in Requests : RefundCommit(r) => payment[requests[r].order] # "REFUNDED"]_vars

\* The guard on unpaid orders reads the copy of the payment status that an
\* online order carries: while the order lives, it is the payment's own.
CopyWhileOpen ==
  \A o \in Orders : onlineToSettle(order[o].shape) /\ live(o) /\ quiet(o) =>
    order[o].paymentStatus = payment[o]

\* The same, for delivered orders only.
CopyFollowsDelivery ==
  \A o \in Orders : order[o].status = "DELIVERED" /\ quiet(o) =>
    order[o].paymentStatus = payment[o]

\* A customer's total is what they were served and not refunded.
SpentIsWhatWasKept ==
  profile.spent = Cardinality({o \in Orders : /\ account(o)
                                              /\ order[o].status = "DELIVERED"
                                              /\ payment[o] # "REFUNDED"})

\* Preparing an order takes its ingredients out of the stock once.
DeductedOnce == \A o \in Orders : deducted[o] <= 1

\* What serving an order leaves behind is counted once, by whichever of the
\* back office, the courier and the counter it was served.
CountedOnce == DeductedOnce /\ SpentIsWhatWasKept

\* A promotion with a limit is not held by more orders than its limit.
CouponWithinLimit == Cardinality(coupon.rows) <= UsageLimit

(***************************************************************************)
(* Orders and their deliveries.                                            *)
(***************************************************************************)
\* A delivery under way carries an order that has not ended, and is in the
\* hands of a driver who is not suspended: whichever path ends an order ends its
\* course, and no step gives a course to a driver who was put aside.
NoStrayCourse ==
  \A o \in Orders : delivery[o].status \in DELIVERY_ACTIVE =>
    /\ order[o].status \notin TERMINAL_STATUSES
    /\ delivery[o].driver # NoDriver => driver[delivery[o].driver].status # "SUSPENDED"

\* A delivery that has ended well has delivered its order.
DeliveredTogether ==
  \A o \in Orders : delivery[o].status = "DELIVERED" /\ quiet(o) =>
    order[o].status = "DELIVERED"

\* A home delivery is delivered by someone.
HomeDeliveryHasDriver ==
  \A o \in Orders : order[o].status = "DELIVERED" /\ order[o].shape.type = "DELIVERY" =>
    delivery[o].driver # NoDriver

\* A driver with a delivery under way is not available.
AvailableIsDeduced ==
  \A d \in Drivers : driver[d].available => activeDeliveries(delivery, d) = {}

\* A driver whose last course ends, or is taken from him, is free at once:
\* delivered, failed, handed over, closed with its order by a cancellation or by
\* a refund, no path leaves him held by a course he no longer has.
FreedWithItsCourse ==
  [][\A d \in Drivers :
        activeDeliveries(delivery, d) # {} /\ activeDeliveries(delivery', d) = {}
          => driver'[d].available]_vars

(***************************************************************************)
(* Liveness.                                                               *)
(***************************************************************************)
\* An online order past its deadline is closed, unless its money comes.
StaleUnpaidCloses == \A o \in Orders : expired(o) ~> ~ expired(o)

\* An online order whose payment is collected reaches the kitchen, unless it is
\* cancelled or the payment is undone.
PaidReachesKitchen ==
  \A o \in Orders :
    (onlineToSettle(order[o].shape) /\ payment[o] = "PAID")
      ~> (announced[o] \/ order[o].status = "CANCELLED" \/ payment[o] # "PAID")
============================================================================
