----------------------------- MODULE OrderStatus -----------------------------
(***************************************************************************)
(* The two state machines of the backend and the rules that guard them, as *)
(* pure operators: src/orders/order-status.ts, src/orders/unpaid-orders.ts *)
(* and src/deliveries/delivery-status.ts.  Every handler asks these before *)
(* it writes.  "ABSENT" marks a row that has not been inserted.            *)
(***************************************************************************)

OrderStatuses == {"PENDING", "CONFIRMED", "PREPARING", "READY", "ASSIGNED",
                  "OUT_FOR_DELIVERY", "DELIVERED", "CANCELLED"}

TERMINAL_STATUSES == {"DELIVERED", "CANCELLED"}

CUSTOMER_CANCELLABLE == {"PENDING", "CONFIRMED"}

canTransition(from, to) ==
  \/ from = "PENDING"          /\ to \in {"CONFIRMED", "CANCELLED"}
  \/ from = "CONFIRMED"        /\ to \in {"PREPARING", "CANCELLED"}
  \/ from = "PREPARING"        /\ to \in {"READY", "CANCELLED"}
  \/ from = "READY"            /\ to \in {"ASSIGNED", "OUT_FOR_DELIVERY",
                                          "DELIVERED", "CANCELLED"}
  \/ from = "ASSIGNED"         /\ to \in {"OUT_FOR_DELIVERY", "READY", "CANCELLED"}
  \/ from = "OUT_FOR_DELIVERY" /\ to \in {"DELIVERED", "CANCELLED"}

\* assertTransition: TRUE when it lets the transition through.
mayTransition(from, to, type) ==
  /\ from # to
  /\ canTransition(from, to)
  /\ ~ (type = "DELIVERY" /\ from = "READY" /\ to = "DELIVERED")
  /\ ~ (type # "DELIVERY" /\ to \in {"ASSIGNED", "OUT_FOR_DELIVERY"})

PaymentStatuses == {"PENDING", "PROCESSING", "PAID", "FAILED", "REFUNDED"}

\* What a customer fixes when ordering.  method groups the payment methods:
\* cash on delivery, or any of those settled with the mobile-money operator.
OrderShapes == [channel : {"ONLINE", "POS"}, method : {"COD", "MOBILE"},
                type : {"DELIVERY", "PICKUP", "DINE_IN"},
                coupon : BOOLEAN]

onlineToSettle(shape) == shape.channel = "ONLINE" /\ shape.method # "COD"

\* Mutant: only a payment never attempted counts as unpaid.
isUnpaidUntilTried(shape, paymentStatus) ==
  onlineToSettle(shape) /\ paymentStatus = "PENDING"

isUnpaidOnline(shape, paymentStatus) ==
  onlineToSettle(shape) /\ paymentStatus # "PAID"

\* cancellationReason: none, the payment page closed (ABANDON_REASON), the
\* payment deadline (expiryReason), or a reason typed by a person.
Reasons == {"NONE", "ABANDON", "EXPIRY", "PERSON"}

\* Mutant: any reason but none is one a payment can undo.
cancelledForAnyReason(reason) == reason # "NONE"

cancelledForNonPayment(reason) == reason \in {"ABANDON", "EXPIRY"}

DELIVERY_ACTIVE == {"ASSIGNED", "ACCEPTED", "ARRIVED_AT_RESTAURANT",
                    "PICKED_UP", "IN_TRANSIT", "ARRIVED_AT_CUSTOMER"}

DELIVERY_TERMINAL == {"DELIVERED", "FAILED"}

canTransitionDelivery(from, to) ==
  \/ from \in DELIVERY_ACTIVE         /\ to = "FAILED"
  \/ from = "ASSIGNED"                /\ to = "ACCEPTED"
  \/ from = "ACCEPTED"                /\ to \in {"ARRIVED_AT_RESTAURANT", "PICKED_UP"}
  \/ from = "ARRIVED_AT_RESTAURANT"   /\ to = "PICKED_UP"
  \/ from = "PICKED_UP"               /\ to \in {"IN_TRANSIT", "ARRIVED_AT_CUSTOMER"}
  \/ from = "IN_TRANSIT"              /\ to = "ARRIVED_AT_CUSTOMER"
  \/ from = "ARRIVED_AT_CUSTOMER"     /\ to = "DELIVERED"

\* assertNotDriverOwned refuses: a carried order is the driver's to move, until
\* the delivery fails.
driverOwned(target, carried, deliveryStatus) ==
  /\ carried
  /\ target \in {"OUT_FOR_DELIVERY", "DELIVERED"}
  /\ deliveryStatus # "FAILED"
==============================================================================
