-------------------------------- MODULE Orders --------------------------------
(***************************************************************************)
(* The handlers of src/orders/orders.service.ts, of the counter sales in   *)
(* src/orders/pos.service.ts, and the stock deduction they trigger in      *)
(* src/finance/recipes.service.ts.                                         *)
(***************************************************************************)
EXTENDS Store

(***************************************************************************)
(* createOrder.  The quote is priced inside the transaction: it reads the  *)
(* promotion's usage count there, and increments it at the end.  Cash      *)
(* orders are announced to the kitchen at once; online ones wait.          *)
(***************************************************************************)
applyPromotion(o) == order[o].shape.coupon => coupon.used < UsageLimit

CreateRead(r, o) ==
  /\ ~ exists(o) /\ order[o].shape.channel = "ONLINE"
  /\ \A q \in Requests : requests[q].next = "createCommit" => requests[q].order # o
  /\ applyPromotion(o)
  /\ Begin(r, "create", On("createCommit", o))
  /\ UNCHANGED tables

CreateCommit(r) ==
  LET o == requests[r].order IN
  /\ At(r, "createCommit")
  /\ WriteStatus(o, "PENDING")
  /\ payment' = [payment EXCEPT ![o] = "PENDING"]
  /\ profile' = [profile EXCEPT !.placed = @ + 1]
  /\ TakeCoupon(o)
  /\ Continue(r, IF order[o].shape.method = "COD" THEN On("announce", o) ELSE Idle)
  /\ UNCHANGED <<everPaid, fleetVars, kitchenVars, operator, perimees>>

\* PosService.create: sold, and possibly served and paid, in one transaction.
PosCreate(r, o) ==
  /\ ~ exists(o) /\ order[o].shape.channel = "POS"
  /\ \E status \in {"DELIVERED", "CONFIRMED"}, paid \in {"PAID", "PENDING"} :
       /\ order' = [order EXCEPT ![o].status = status, ![o].paymentStatus = paid]
       /\ history' = [history EXCEPT ![o] = status]
       /\ payment' = [payment EXCEPT ![o] = paid]
       /\ everPaid' = [everPaid EXCEPT ![o] = paid = "PAID"]
  /\ Begin(r, "pos", [On("consumeRead", o) EXCEPT !.back = "announce"])
  /\ UNCHANGED <<ledgerVars, fleetVars, kitchenVars, operator, perimees>>

(***************************************************************************)
(* recipes.consumeForOrder.  Its transaction reads stockConsumedAt, then   *)
(* sets it and writes the stock movements.                                 *)
(***************************************************************************)
\* Mutant: the mark of an earlier deduction is not read.
ConsumeUnread(r) ==
  /\ At(r, "consumeRead")
  /\ Continue(r, [requests[r] EXCEPT !.next = "consumeWrite"])
  /\ UNCHANGED tables

ConsumeRead(r) ==
  LET o == requests[r].order IN
  /\ At(r, "consumeRead")
  /\ IF order[o].consumed
       THEN Return(r)
       ELSE Continue(r, [requests[r] EXCEPT !.next = "consumeWrite"])
  /\ UNCHANGED tables

ConsumeWrite(r) ==
  LET o == requests[r].order IN
  /\ At(r, "consumeWrite")
  /\ order' = [order EXCEPT ![o].consumed = TRUE]
  /\ deducted' = [deducted EXCEPT ![o] = @ + 1]
  /\ Return(r)
  /\ UNCHANGED <<history, moneyVars, ledgerVars, fleetVars, announced, operator, perimees>>

(***************************************************************************)
(* settleOnDelivery and closeDeliveryWith, run inside the transaction that *)
(* moves an order.                                                         *)
(***************************************************************************)

settles(o, target) == target = "DELIVERED"

cashSettled(o, target) == settles(o, target) /\ order[o].shape.method = "COD"

\* The order row: its new status and, for cash, its copy of the payment status.
MoveAndSettle(o, target) ==
  /\ order' = [order EXCEPT ![o].status = target,
                            ![o].paymentStatus = IF cashSettled(o, target) THEN "PAID" ELSE @]
  /\ history' = [history EXCEPT ![o] = target]
  /\ profile' = IF settles(o, target) /\ account(o)
                  THEN [profile EXCEPT !.spent = @ + 1] ELSE profile
  /\ IF cashSettled(o, target) /\ payment[o] \in {"PENDING", "PROCESSING"}
       THEN /\ PaymentUnlocked(o)
            /\ payment' = [payment EXCEPT ![o] = "PAID"]
            /\ everPaid' = [everPaid EXCEPT ![o] = TRUE]
       ELSE UNCHANGED moneyVars

closeDeliveryWith(o, target) ==
  IF target = "DELIVERED" /\ delivery[o].status \in DELIVERY_ACTIVE
    THEN /\ delivery' = [delivery EXCEPT ![o].status = "DELIVERED"]
         /\ driver' = [d \in Drivers |->
                         IF d = delivery[o].driver
                           THEN [driver[d] EXCEPT !.available = TRUE] ELSE driver[d]]
    ELSE UNCHANGED fleetVars

(***************************************************************************)
(* updateStatus: the back office moves an order.                           *)
(***************************************************************************)

UpdateStatusRead(r, o, target) ==
  /\ exists(o) /\ target \in OrderStatuses \ {"CANCELLED"}
  /\ mayTransition(order[o].status, target, order[o].shape.type)
  /\ ~ driverOwned(target, delivery[o].driver # NoDriver, delivery[o].status)
  /\ ~ isUnpaidOnline(order[o].shape, order[o].paymentStatus)
  /\ Begin(r, "updateStatus", Towards("statusCommit", o, target))
  /\ UNCHANGED tables

UpdateStatusCommit(r) ==
  LET o == requests[r].order  target == requests[r].target IN
  /\ At(r, "statusCommit")
  /\ MoveAndSettle(o, target)
  /\ closeDeliveryWith(o, target)
  /\ Continue(r, IF target = "PREPARING" THEN On("consumeRead", o) ELSE Idle)
  /\ UNCHANGED <<coupon, kitchenVars, operator, perimees>>

(***************************************************************************)
(* cancel, by the customer (early, and within the window) or by staff.     *)
(* The commit acts on the delivery and the payment as they were read.      *)
(***************************************************************************)
CancelRead(r, o) ==
  /\ exists(o)
  /\ mayTransition(order[o].status, "CANCELLED", order[o].shape.type)
  /\ \/ "cancelByStaff" \in Ops
     \/ order[o].status \in CUSTOMER_CANCELLABLE /\ order[o].age = "FRESH"
  /\ Begin(r, "cancel",
           [On("cancelCommit", o) EXCEPT
              !.driver = delivery[o].driver,
              !.seen = (IF delivery[o].status # "ABSENT" THEN {"delivery"} ELSE {})
                         \union (IF payment[o] = "PENDING" THEN {"paymentPending"} ELSE {})])
  /\ UNCHANGED tables

CancelCommit(r) ==
  LET o == requests[r].order  seen == requests[r].seen IN
  /\ At(r, "cancelCommit")
  /\ CloseOrder(o, "PERSON")
  /\ IF "delivery" \in seen
       THEN /\ delivery' = [delivery EXCEPT ![o].status = "FAILED"]
            /\ driver' = [d \in Drivers |->
                            IF d = requests[r].driver
                              THEN [driver[d] EXCEPT !.available = TRUE] ELSE driver[d]]
       ELSE UNCHANGED fleetVars
  /\ ReturnCoupon(o)
  /\ CountCancelled(o, 1)
  /\ IF "paymentPending" \in seen
       THEN PaymentUnlocked(o) /\ payment' = [payment EXCEPT ![o] = "FAILED"]
       ELSE UNCHANGED payment
  /\ Finish(r)
  /\ UNCHANGED <<everPaid, kitchenVars, operator, perimees>>

(***************************************************************************)
(* expireUnpaid, run by a cron job every five minutes: one query selects   *)
(* the expired orders, then each is closed in a transaction of its own.    *)
(***************************************************************************)
expired(o) ==
  /\ exists(o)
  /\ order[o].status \in {"PENDING", "CONFIRMED"}
  /\ isUnpaidOnline(order[o].shape, order[o].paymentStatus)
  /\ order[o].age = "STALE"

\* Mutant: an order whose payment was tried is left to the operator.
ExpireSelectUntried ==
  /\ "expire" \in Ops
  /\ perimees = {} /\ Busy < MaxInFlight
  /\ perimees' = {o \in Orders : expired(o) /\ payment[o] = "PENDING"}
  /\ UNCHANGED <<orderVars, moneyVars, ledgerVars, fleetVars, kitchenVars,
                 operator, calls, requests>>

ExpireSelect ==
  /\ "expire" \in Ops
  /\ perimees = {} /\ Busy < MaxInFlight
  /\ perimees' = {o \in Orders : expired(o)}
  /\ UNCHANGED <<orderVars, moneyVars, ledgerVars, fleetVars, kitchenVars,
                 operator, calls, requests>>

ExpireOne(o) ==
  /\ o \in perimees
  /\ perimees' = perimees \ {o}
  /\ CloseOrder(o, "EXPIRY")
  /\ ReturnCoupon(o)
  /\ CountCancelled(o, 1)
  /\ IF payment[o] = "PENDING"
       THEN PaymentUnlocked(o) /\ payment' = [payment EXCEPT ![o] = "FAILED"]
       ELSE UNCHANGED payment
  /\ UNCHANGED <<everPaid, fleetVars, kitchenVars, operator, calls, requests>>

(***************************************************************************)
(* applySystemTransition: a delivery moves its order, without the back     *)
(* office's guards and without closing the delivery.                       *)
(***************************************************************************)
SystemRead(r) ==
  LET o == requests[r].order  target == requests[r].target IN
  /\ At(r, "systemRead")
  /\ IF mayTransition(order[o].status, target, order[o].shape.type)
       THEN Continue(r, [requests[r] EXCEPT !.next = "systemCommit"])
       ELSE Finish(r)
  /\ UNCHANGED tables

SystemCommit(r) ==
  LET o == requests[r].order IN
  /\ At(r, "systemCommit")
  /\ MoveAndSettle(o, requests[r].target)
  /\ Finish(r)
  /\ UNCHANGED <<coupon, fleetVars, kitchenVars, operator, perimees>>

\* The clock passes the cancellation window, then the payment deadline.
Age(o) ==
  /\ exists(o) /\ order[o].age # "STALE"
  /\ order' = [order EXCEPT ![o].age = IF @ = "FRESH" THEN "LATE" ELSE "STALE"]
  /\ UNCHANGED <<history, moneyVars, ledgerVars, fleetVars, kitchenVars,
                 operator, perimees, calls, requests>>

OrdersNext ==
  \/ \E r \in Requests :
       \/ \E o \in Orders : CreateRead(r, o) \/ PosCreate(r, o) \/ CancelRead(r, o)
       \/ \E o \in Orders, target \in OrderStatuses : UpdateStatusRead(r, o, target)
       \/ CreateCommit(r) \/ UpdateStatusCommit(r) \/ CancelCommit(r)
       \/ ConsumeRead(r) \/ ConsumeWrite(r) \/ SystemRead(r) \/ SystemCommit(r)
  \/ \E o \in Orders : ExpireOne(o) \/ Age(o)
  \/ ExpireSelect
==============================================================================
