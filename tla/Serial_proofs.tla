---------------------------- MODULE Serial_proofs ----------------------------
(***************************************************************************)
(* The life of an order when requests are served one after the other       *)
(* (OneByOne), for any number of orders, drivers and calls: the ledgers    *)
(* balance, the state machine is followed, a course does not outlive its   *)
(* order, money stays collected.  What crossing requests do to the same    *)
(* properties is in find_core.cfg and section 5 of README.md.              *)
(*                                                                         *)
(* The proof goes in three steps.  SInv says that what a request has read  *)
(* is still so when it commits.  Under it, every step of Bercail is one of *)
(* eight effects on the rows of one order, or moves none (Summary).  Each  *)
(* property is then proved of the effects, whichever handler they are of.  *)
(***************************************************************************)
EXTENDS Bercail_proofs, FiniteSetTheorems

OneByOne == MaxInFlight <= 1

(***************************************************************************)
(* What a request has read is still so                                     *)
(***************************************************************************)
\* One request at most is at work, and none while the cron job runs.
Alone ==
  /\ \A r, q \in Requests : requests[r].next # "idle" /\ requests[q].next # "idle" => r = q
  /\ perimees # {} => \A r \in Requests : requests[r].next = "idle"

\* An online order and its payment agree on whether the money is collected.
keptMoney(o) ==
  onlineToSettle(order[o].shape) => (order[o].paymentStatus = "PAID" <=> payment[o] = "PAID")

\* What has not been ordered has no payment, no course, and is unknown to the operator.
notYet(o) ==
  ~ exists(o) => /\ order[o].paymentStatus = "PENDING" /\ payment[o] = "ABSENT"
                 /\ delivery[o].status = "ABSENT"
                 /\ operator[o].state = "none" /\ operator[o].said = {}

RowsHold == \A o \in Orders : order[o].shape \in Shapes /\ keptMoney(o) /\ notYet(o)

\* What the cron job has selected is still unpaid.
Overdue ==
  \A o \in perimees : /\ order[o].status \in {"PENDING", "CONFIRMED"}
                      /\ isUnpaidOnline(order[o].shape, order[o].paymentStatus)
                      /\ "expire" \in Ops

\* What each step relies on, read when the request arrived or at its last step.
known(row) ==
  LET o == row.order IN
  /\ row.next \notin {"idle", "createCommit"} \union DriverSteps => exists(o)
  /\ row.next = "createCommit" => ~ exists(o) /\ account(o)
  /\ row.next = "statusCommit" =>
       /\ mayTransition(order[o].status, row.target, order[o].shape.type)
       /\ row.target # "CANCELLED"
       /\ ~ isUnpaidOnline(order[o].shape, order[o].paymentStatus)
  /\ row.next = "cancelCommit" =>
       /\ mayTransition(order[o].status, "CANCELLED", order[o].shape.type)
       /\ "delivery" \in row.seen <=> delivery[o].status # "ABSENT"
       /\ "paymentPending" \in row.seen => payment[o] = "PENDING"
  /\ row.next = "consumeWrite" => ~ order[o].consumed
  /\ row.next \in {"systemRead", "systemCommit"} =>
       /\ row.target \in {"OUT_FOR_DELIVERY", "DELIVERED"}
       /\ row.target = "DELIVERED" => delivery[o].status = "DELIVERED"
  /\ row.next = "systemCommit" => mayTransition(order[o].status, row.target, order[o].shape.type)
  /\ row.next = "initiateWrite" =>
       onlineToSettle(order[o].shape) /\ order[o].paymentStatus # "PAID"
  /\ row.next = "initiateCopy" =>
       onlineToSettle(order[o].shape) /\ payment[o] = "PROCESSING"
  /\ row.next = "confirmCommit" /\ "revivable" \in row.seen =>
       order[o].status = "CANCELLED" /\ cancelledForNonPayment(order[o].reason)
  /\ row.next \in {"abandonTx", "abandonCommit"} => payment[o] \in {"PENDING", "PROCESSING"}
  /\ row.next = "abandonCommit" /\ "pending" \in row.seen => order[o].status = "PENDING"
  /\ row.next = "failCommit" => payment[o] # "PAID" \/ "markFailed" \in Ops
  /\ row.next = "refundCommit" => payment[o] = "PAID" /\ "refund" \in Ops
  /\ row.next = "assignCommit" =>
       /\ order[o].status \in assignableStatuses /\ order[o].shape.type = "DELIVERY"
       /\ "ready" \in row.seen <=> order[o].status = "READY"
  /\ row.next = "moveCommit" /\ row.target \in DELIVERY_ACTIVE =>
       delivery[o].status \in DELIVERY_ACTIVE
  /\ row.next = "driverStatusCommit" /\ row.target = "SUSPENDED" =>
       activeDeliveries(delivery, row.driver) = {}

StillTrue == \A r \in Requests : known(requests[r])

SInv == Alone /\ RowsHold /\ Overdue /\ StillTrue

(***************************************************************************)
(* The effects of a step                                                   *)
(***************************************************************************)
KeepsStatus(o) == order'[o].status = order[o].status /\ order'[o].reason = order[o].reason

KeepsMoney(o) == order'[o].paymentStatus = order[o].paymentStatus /\ payment'[o] = payment[o]

KeepsStock(o) == order'[o].consumed = order[o].consumed /\ deducted'[o] = deducted[o]

KeepsCourse(o) == delivery'[o] = delivery[o]

Same(o) == KeepsStatus(o) /\ KeepsMoney(o) /\ KeepsStock(o) /\ KeepsCourse(o)

ShapesKept == \A o \in Orders : order'[o].shape = order[o].shape

SameLedgers == coupon' = coupon /\ profile' = profile

SameCrew == \A d \in Drivers : driver'[d].status = driver[d].status

\* No order moves, and nobody is suspended with a course under way.
Still ==
  /\ \A o \in Orders : Same(o)
  /\ delivery' = delivery /\ SameLedgers
  /\ \A d \in Drivers : driver'[d].status = "SUSPENDED" =>
       driver[d].status = "SUSPENDED" \/ activeDeliveries(delivery, d) = {}

\* The customer orders.
Created(o) ==
  /\ ~ exists(o) /\ account(o)
  /\ order'[o].status = "PENDING" /\ payment'[o] = "PENDING"
  /\ order'[o].paymentStatus = order[o].paymentStatus
  /\ KeepsStock(o) /\ KeepsCourse(o)
  /\ TakeCoupon(o) /\ profile' = [profile EXCEPT !.placed = @ + 1]

\* The counter sells.
Sold(o) ==
  /\ ~ exists(o) /\ order[o].shape.channel = "POS"
  /\ order'[o].status \in {"DELIVERED", "CONFIRMED"}
  /\ payment'[o] \in {"PAID", "PENDING"} /\ order'[o].paymentStatus = payment'[o]
  /\ KeepsStock(o) /\ KeepsCourse(o) /\ SameLedgers

\* An order moves on, by the back office or with its course.
Moved(o) ==
  /\ mayTransition(order[o].status, order'[o].status, order[o].shape.type)
  /\ order'[o].status # "CANCELLED"
  /\ onlineToSettle(order[o].shape) =>
       order[o].paymentStatus = "PAID" \/ order[o].status # "PENDING"
  /\ \/ KeepsMoney(o)
     \/ /\ order[o].shape.method = "COD"
        /\ order'[o].paymentStatus = "PAID" /\ payment'[o] \in {payment[o], "PAID"}
  /\ profile' = IF order'[o].status = "DELIVERED" /\ account(o)
                  THEN [profile EXCEPT !.spent = @ + 1] ELSE profile
  /\ KeepsStock(o) /\ coupon' = coupon
  /\ KeepsCourse(o) \/ delivery'[o].status = "DELIVERED"
  /\ order'[o].status = "DELIVERED" => delivery'[o].status \notin DELIVERY_ACTIVE

\* Only the deadline closes an order without looking at its course.
unseen(o) ==
  /\ "expire" \in Ops /\ order[o].status = "CONFIRMED"
  /\ isUnpaidOnline(order[o].shape, order[o].paymentStatus)

\* An order is closed: by a person, the closed page, or the deadline.
Closed(o) ==
  /\ mayTransition(order[o].status, "CANCELLED", order[o].shape.type)
  /\ order'[o].status = "CANCELLED"
  /\ \/ payment'[o] = payment[o]
     \/ payment[o] \in {"PENDING", "PROCESSING"} /\ payment'[o] = "FAILED"
  /\ \/ order'[o].paymentStatus = order[o].paymentStatus
     \/ order'[o].paymentStatus = "FAILED" /\ payment'[o] = "FAILED"
  /\ ReturnCoupon(o) /\ CountCancelled(o, 1) /\ KeepsStock(o)
  /\ KeepsCourse(o) \/ delivery'[o].status = "FAILED"
  /\ delivery'[o].status \in DELIVERY_ACTIVE => order[o].status = "PENDING" \/ unseen(o)

\* Its money comes all the same.
Revived(o) ==
  /\ order[o].status = "CANCELLED" /\ cancelledForNonPayment(order[o].reason)
  /\ order'[o].status = "PENDING"
  /\ payment'[o] = "PAID" /\ order'[o].paymentStatus = "PAID"
  /\ TakeCoupon(o) /\ CountCancelled(o, -1) /\ KeepsStock(o) /\ KeepsCourse(o)

pendingCopy(o) == \E r \in Requests : requests[r].next = "initiateCopy" /\ requests[r].order = o

Both(o, status) == payment'[o] = status /\ order'[o].paymentStatus = status

\* The payment of an order moves, and its copy on the order.
Billed(o) ==
  /\ exists(o) /\ KeepsStatus(o) /\ KeepsStock(o) /\ KeepsCourse(o) /\ coupon' = coupon
  /\ \/ Both(o, "PAID") /\ profile' = profile
     \/ /\ Both(o, "FAILED") /\ profile' = profile
        /\ payment[o] # "PAID" \/ "markFailed" \in Ops
     \/ /\ Both(o, "REFUNDED") /\ payment[o] = "PAID" /\ "refund" \in Ops
        /\ profile' = IF account(o) THEN [profile EXCEPT !.spent = @ - 1] ELSE profile
     \/ /\ payment'[o] = "PROCESSING" /\ order'[o].paymentStatus = order[o].paymentStatus
        /\ onlineToSettle(order[o].shape) /\ order[o].paymentStatus # "PAID"
        /\ pendingCopy(o)' /\ profile' = profile
     \/ /\ payment[o] = "PROCESSING" /\ Both(o, "PROCESSING")
        /\ onlineToSettle(order[o].shape) /\ profile' = profile

\* The course of an order moves.
Carried(o) ==
  /\ exists(o) /\ KeepsMoney(o) /\ KeepsStock(o) /\ SameLedgers
  /\ \/ /\ order[o].status \in assignableStatuses /\ order[o].shape.type = "DELIVERY"
        /\ order'[o].status = IF order[o].status = "READY" THEN "ASSIGNED" ELSE order[o].status
        /\ delivery'[o].driver \in Drivers /\ driver[delivery'[o].driver].status = "ACTIVE"
     \/ /\ KeepsStatus(o) /\ delivery'[o].driver = delivery[o].driver
        /\ delivery'[o].status \in DELIVERY_ACTIVE => delivery[o].status \in DELIVERY_ACTIVE
     \/ /\ order'[o].status = IF order[o].status = "ASSIGNED" THEN "READY" ELSE order[o].status
        /\ delivery'[o].status = delivery[o].status /\ delivery'[o].driver = NoDriver

\* The ingredients of an order leave the stock.
Deducted(o) ==
  /\ exists(o) /\ KeepsStatus(o) /\ KeepsMoney(o) /\ KeepsCourse(o) /\ SameLedgers
  /\ ~ order[o].consumed /\ order'[o].consumed /\ deducted'[o] = deducted[o] + 1

Effect(o) ==
  \/ Created(o) \/ Sold(o) \/ Moved(o) \/ Closed(o) \/ Revived(o)
  \/ Billed(o) \/ Carried(o) \/ Deducted(o)

OneOrderMoves ==
  \E o \in Orders : /\ Effect(o) /\ SameCrew
                    /\ \A q \in Orders \ {o} : Same(q)

\* A payment that was opened has its copy written, unless its request dies.
CopyComes ==
  \A o \in Orders : pendingCopy(o) =>
    pendingCopy(o)' \/ "crash" \in Ops \/ order'[o].paymentStatus = payment'[o]

\* The operator deals with orders that were placed.
OperatorKnows == \A o \in Orders : ~ exists(o) => operator'[o] = operator[o]

Summary == ShapesKept /\ CopyComes /\ OperatorKnows /\ (Still \/ OneOrderMoves)

\* What every step leaves: what requests have read is still so, and one effect.
Stepped == Alone' /\ Overdue' /\ StillTrue' /\ Summary

(***************************************************************************)
(* One request at a time                                                   *)
(***************************************************************************)
\* Every other request has ended, and the cron job is not running.
lone(r) ==
  /\ perimees = {}
  /\ \A p \in Requests : p # r => requests[p].next = "idle"

\* Nobody is at work when a request is let in.
LEMMA NobodyAtWork ==
  ASSUME OneByOne, Alone, Busy < MaxInFlight
  PROVE  perimees = {} /\ \A p \in Requests : requests[p].next = "idle"
<1>1. MaxInFlight \in Nat /\ MaxInFlight <= 1
  BY StoreAssumption DEF StoreAssumption, OneByOne
<1>2. CASE InFlight = {}
  <2>1. Cardinality(InFlight) = 0
    BY <1>2, FS_EmptySet
  <2> QED BY <1>1, <1>2, <2>1 DEF Busy, InFlight
<1>3. ASSUME NEW p \in InFlight PROVE FALSE
  <2>1. InFlight = {p} /\ perimees = {}
    BY <1>3 DEF InFlight, Alone
  <2>2. Cardinality(InFlight) = 1
    BY <2>1, FS_Singleton
  <2> QED BY <1>1, <2>1, <2>2 DEF Busy
<1> QED BY <1>2, <1>3

\* A request that is let in, or at work, is alone.
LEMMA LoneIsAlone ==
  ASSUME Alone, NEW r \in Requests
  PROVE  /\ requests[r].next # "idle" => lone(r)
         /\ \A op, row : OneByOne /\ Begin(r, op, row) =>
              /\ lone(r) /\ op \in Ops /\ requests[r].next = "idle"
              /\ requests' = [requests EXCEPT ![r] = row]
<1>1. requests[r].next # "idle" => lone(r)
  BY DEF Alone, lone
<1>2. ASSUME NEW op, NEW row, OneByOne, Begin(r, op, row)
      PROVE  /\ lone(r) /\ op \in Ops /\ requests[r].next = "idle"
             /\ requests' = [requests EXCEPT ![r] = row]
  BY <1>2, NobodyAtWork DEF Begin, lone
<1> QED BY <1>1, <1>2

\* An ended request relies on nothing.
LEMMA KnownIdle ==
  ASSUME NEW row, row.next = "idle"
  PROVE  known(row)
BY DEF known, DriverSteps

OrderOnly == {"consumeRead", "confirmRead", "confirmTx", "announce", "reconcile", "ask",
              "callback", "abandonRead", "completeRead", "declineCommit"}

\* These steps rely on the order having been placed, and read the rest themselves.
LEMMA KnownPlain ==
  ASSUME NEW row, row.next \in OrderOnly, exists(row.order)
  PROVE  known(row)
BY DEF known, DriverSteps, OrderOnly

\* What is relied on is read in three tables.
LEMMA SameKnown ==
  ASSUME UNCHANGED <<order, payment, delivery>>, NEW row, known(row)
  PROVE  known(row)'
BY DEF known, exists, account, activeDeliveries

\* Rows of a request that a lone request rewrites: the others stay idle.
LEMMA OneSlot ==
  ASSUME TypeOK, NEW r \in Requests, NEW row, lone(r), UNCHANGED perimees,
         requests' = [requests EXCEPT ![r] = row], known(row)',
         requests[r].next # "initiateCopy" \/ "crash" \in Ops
  PROVE  Alone' /\ Overdue' /\ StillTrue' /\ CopyComes
<1>1. \A p \in Requests : requests'[p] = IF p = r THEN row ELSE requests[p]
  BY DEF TypeOK, RequestsOK
<1>2. Alone'
  BY <1>1 DEF Alone, lone
<1>3. Overdue'
  BY DEF Overdue, lone
<1>4. StillTrue'
  <2> SUFFICES ASSUME NEW p \in Requests PROVE known(requests[p])'
    BY DEF StillTrue
  <2>1. CASE p = r
    <3>1. requests'[p] = row
      BY <1>1, <2>1
    <3> QED BY <3>1 DEF known
  <2>2. CASE p # r
    <3>1. requests'[p].next = "idle"
      BY <1>1, <2>2 DEF lone
    <3> QED BY <3>1 DEF known, DriverSteps
  <2> QED BY <2>1, <2>2
<1>5. CopyComes
  BY DEF CopyComes, pendingCopy, lone
<1> QED BY <1>2, <1>3, <1>4, <1>5

\* A step that writes no table moves no order.
LEMMA NoTable ==
  ASSUME UNCHANGED <<order, payment, delivery, deducted, coupon, profile>>,
         \A d \in Drivers : driver'[d].status = driver[d].status
  PROVE  Still /\ ShapesKept
BY DEF Still, ShapesKept, Same, KeepsStatus, KeepsMoney, KeepsStock, KeepsCourse, SameLedgers

\* The tables as one.
LEMMA TablesApart ==
  UNCHANGED tables =>
    UNCHANGED <<order, history, payment, everPaid, coupon, profile, delivery, driver, deducted,
                announced, operator, perimees>>
BY DEF tables, orderVars, moneyVars, ledgerVars, fleetVars, kitchenVars

\* A request that writes no order goes on to a step whose facts hold.
LEMMA Reads ==
  ASSUME TypeOK, NEW r \in Requests, NEW row, lone(r),
         UNCHANGED <<order, payment, delivery, deducted, coupon, profile, perimees>>,
         \A d \in Drivers : driver'[d].status = driver[d].status, OperatorKnows,
         requests' = [requests EXCEPT ![r] = row], known(row),
         requests[r].next # "initiateCopy" \/ "crash" \in Ops
  PROVE  Stepped
<1>1. known(row)'
  BY SameKnown
<1> QED BY <1>1, OneSlot, NoTable DEF Stepped, Summary

\* A request arrives, having read what it relies on.
LEMMA Arrives ==
  ASSUME TypeOK, Alone, OneByOne, NEW r \in Requests, NEW op, NEW row, Begin(r, op, row),
         UNCHANGED tables, known(row)
  PROVE  Stepped
<1>1. /\ lone(r) /\ requests[r].next = "idle"
      /\ requests' = [requests EXCEPT ![r] = row]
  BY LoneIsAlone
<1> QED BY <1>1, Reads, TablesApart DEF OperatorKnows

\* A request at work goes on, having read what it relies on.
LEMMA GoesOnKnowing ==
  ASSUME TypeOK, Alone, NEW r \in Requests, NEW row, Continue(r, row),
         requests[r].next \notin {"idle", "initiateCopy"}, UNCHANGED tables, known(row)
  PROVE  Stepped
<1>1. lone(r) /\ requests' = [requests EXCEPT ![r] = row]
  BY LoneIsAlone DEF Continue
<1> QED BY <1>1, Reads, TablesApart DEF OperatorKnows

\* The row a handler leaves when it returns: idle, or a step of its caller.
Back(o, row) ==
  \/ row.next = "idle"
  \/ row.next \in {"announce", "abandonRead", "completeRead"} /\ row.order = o

\* A handler returns to its caller, on the same order.
LEMMA ReturnsTo ==
  ASSUME TypeOK, NEW r \in Requests, NEW o, o = requests[r].order, Return(r)
  PROVE  \E row : requests' = [requests EXCEPT ![r] = row] /\ Back(o, row)
<1>1. CASE requests[r].back = "idle"
  <2>1. requests' = [requests EXCEPT ![r] = Idle] /\ Idle.next = "idle"
    BY <1>1 DEF Return, Finish, Continue, Idle
  <2> QED BY <2>1 DEF Back
<1>2. CASE requests[r].back # "idle"
  <2>1. requests' = [requests EXCEPT ![r] = On(requests[r].back, o)]
    BY <1>2 DEF Return, Continue
  <2>2. requests[r].back \in {"announce", "abandonRead", "completeRead"}
    BY <1>2 DEF TypeOK, RequestsOK, RequestRows, Callers
  <2>3. On(requests[r].back, o).next = requests[r].back /\ On(requests[r].back, o).order = o
    BY DEF On, Idle
  <2> QED BY <2>1, <2>2, <2>3 DEF Back
<1> QED BY <1>1, <1>2

\* The caller relies on the order having been placed.
LEMMA KnownBack ==
  ASSUME NEW o, NEW row, Back(o, row), exists(o)
  PROVE  known(row)
BY DEF Back, known, DriverSteps

\* The same, once the order has been placed.
LEMMA KnownBackAfter ==
  ASSUME NEW o, NEW row, Back(o, row), exists(o)'
  PROVE  known(row)'
BY DEF Back, known, DriverSteps

\* A handler that wrote no order returns.
LEMMA ReturnsKnowing ==
  ASSUME TypeOK, Alone, StillTrue, NEW r \in Requests, Return(r), UNCHANGED tables,
         requests[r].next \notin {"idle", "initiateCopy", "createCommit"} \union DriverSteps
  PROVE  Stepped
<1>1. PICK o : o = requests[r].order
  OBVIOUS
<1>2. PICK row : requests' = [requests EXCEPT ![r] = row] /\ Back(o, row)
  BY <1>1, ReturnsTo
<1>3. exists(o)
  BY <1>1 DEF StillTrue, known
<1> QED BY <1>2, <1>3, KnownBack, LoneIsAlone, Reads, TablesApart DEF OperatorKnows

(***************************************************************************)
(* What each request reads before it commits                               *)
(***************************************************************************)
\* The fields of the rows handlers go on with.
LEMMA OnFields ==
  ASSUME NEW step, NEW o, NEW target
  PROVE  /\ On(step, o).next = step /\ On(step, o).order = o
         /\ Towards(step, o, target).next = step /\ Towards(step, o, target).order = o
         /\ Towards(step, o, target).target = target
         /\ Idle.next = "idle"
BY DEF On, Towards, Idle

\* A cancellation reads the course and the payment.
LEMMA KnownCancel ==
  ASSUME NEW o, exists(o), NEW d, NEW seen,
         mayTransition(order[o].status, "CANCELLED", order[o].shape.type),
         "delivery" \in seen <=> delivery[o].status # "ABSENT",
         "paymentPending" \in seen => payment[o] = "PENDING"
  PROVE  known([On("cancelCommit", o) EXCEPT !.driver = d, !.seen = seen])
<1> DEFINE row == [On("cancelCommit", o) EXCEPT !.driver = d, !.seen = seen]
<1>1. row.next = "cancelCommit" /\ row.order = o /\ row.seen = seen
  BY DEF On, Idle
<1> HIDE DEF row
<1>2. known(row)
  BY <1>1 DEF known, DriverSteps
<1> QED BY <1>2 DEF row

\* A back-office move reads the status and the copy of the payment.
LEMMA KnownStatus ==
  ASSUME NEW o, exists(o), NEW target, target # "CANCELLED",
         mayTransition(order[o].status, target, order[o].shape.type),
         ~ isUnpaidOnline(order[o].shape, order[o].paymentStatus)
  PROVE  known(Towards("statusCommit", o, target))
<1> DEFINE row == Towards("statusCommit", o, target)
<1>1. row.next = "statusCommit" /\ row.order = o /\ row.target = target
  BY OnFields
<1> HIDE DEF row
<1>2. known(row)
  BY <1>1 DEF known, DriverSteps
<1> QED BY <1>2 DEF row

\* A request that has read one fact goes on to the step that relies on it.
LEMMA KnownOn ==
  ASSUME NEW o, NEW step
  PROVE  /\ step \in OrderOnly /\ exists(o) => known(On(step, o))
         /\ step = "createCommit" /\ ~ exists(o) /\ account(o) => known(On(step, o))
         /\ step = "initiateWrite" /\ exists(o) /\ onlineToSettle(order[o].shape)
              /\ order[o].paymentStatus # "PAID" => known(On(step, o))
         /\ step = "failCommit" /\ exists(o) /\ (payment[o] # "PAID" \/ "markFailed" \in Ops)
              => known(On(step, o))
         /\ step = "refundCommit" /\ exists(o) /\ payment[o] = "PAID" /\ "refund" \in Ops
              => known(On(step, o))
         /\ step = "abandonTx" /\ exists(o) /\ payment[o] \in {"PENDING", "PROCESSING"}
              => known(On(step, o))
<1> DEFINE row == On(step, o)
<1>1. row.next = step /\ row.order = o
  BY OnFields
<1> HIDE DEF row
<1>2. step \in OrderOnly /\ exists(o) => known(row)
  BY <1>1, KnownPlain
<1>3. /\ step = "createCommit" /\ ~ exists(o) /\ account(o) => known(row)
      /\ step = "initiateWrite" /\ exists(o) /\ onlineToSettle(order[o].shape)
           /\ order[o].paymentStatus # "PAID" => known(row)
  BY <1>1 DEF known, DriverSteps
<1>4. /\ step = "failCommit" /\ exists(o) /\ (payment[o] # "PAID" \/ "markFailed" \in Ops)
           => known(row)
      /\ step = "refundCommit" /\ exists(o) /\ payment[o] = "PAID" /\ "refund" \in Ops
           => known(row)
      /\ step = "abandonTx" /\ exists(o) /\ payment[o] \in {"PENDING", "PROCESSING"}
           => known(row)
  BY <1>1 DEF known, DriverSteps
<1> QED BY <1>2, <1>3, <1>4 DEF row

\* The requests of the orders service read what their commits rely on.
LEMMA OrdersRead ==
  ASSUME TypeOK, SInv, OneByOne, NEW r \in Requests, NEW o \in Orders,
         \/ CreateRead(r, o) \/ CancelRead(r, o)
         \/ \E target \in OrderStatuses : UpdateStatusRead(r, o, target)
  PROVE  Stepped
<1> USE DEF SInv
<1>1. CASE CreateRead(r, o)
  <2>1. known(On("createCommit", o))
    BY <1>1, KnownOn DEF CreateRead, account
  <2> QED BY <1>1, <2>1, Arrives DEF CreateRead
<1>2. CASE CancelRead(r, o)
  <2> DEFINE seen == (IF delivery[o].status # "ABSENT" THEN {"delivery"} ELSE {})
                       \union (IF payment[o] = "PENDING" THEN {"paymentPending"} ELSE {})
             row == [On("cancelCommit", o) EXCEPT !.driver = delivery[o].driver, !.seen = seen]
  <2>1. /\ "delivery" \in seen <=> delivery[o].status # "ABSENT"
        /\ "paymentPending" \in seen => payment[o] = "PENDING"
    OBVIOUS
  <2>2. Begin(r, "cancel", row) /\ UNCHANGED tables /\ exists(o)
        /\ mayTransition(order[o].status, "CANCELLED", order[o].shape.type)
    BY <1>2 DEF CancelRead
  <2> HIDE DEF seen
  <2>3. known(row)
    BY <2>1, <2>2, KnownCancel
  <2> HIDE DEF row
  <2> QED BY <2>2, <2>3, Arrives
<1>3. ASSUME NEW target \in OrderStatuses, UpdateStatusRead(r, o, target) PROVE Stepped
  <2>1. known(Towards("statusCommit", o, target))
    BY <1>3, KnownStatus DEF UpdateStatusRead
  <2> QED BY <1>3, <2>1, Arrives DEF UpdateStatusRead
<1> QED BY <1>1, <1>2, <1>3

\* So do those of the payments service.
LEMMA PaymentsRead ==
  ASSUME TypeOK, SInv, OneByOne, NEW r \in Requests, NEW o \in Orders,
         \/ InitiateRead(r, o) \/ Confirm(r, o) \/ MarkFailed(r, o)
         \/ RefundRead(r, o) \/ Abandon(r, o) \/ FindForOrder(r, o)
         \/ \E outcome \in Outcomes : OperatorCalls(r, o, outcome)
  PROVE  Stepped
<1> USE DEF SInv
<1>1. CASE InitiateRead(r, o)
  <2>1. known(On("initiateWrite", o))
    BY <1>1, KnownOn DEF InitiateRead, account, onlineToSettle
  <2>2. Begin(r, "initiate", On("initiateWrite", o))
    BY <1>1 DEF InitiateRead
  <2>3. /\ lone(r) /\ requests[r].next = "idle"
        /\ requests' = [requests EXCEPT ![r] = On("initiateWrite", o)]
    BY <2>2, LoneIsAlone
  <2>4. UNCHANGED <<order, payment, delivery, deducted, coupon, profile, perimees, driver>>
    BY <1>1 DEF InitiateRead, orderVars, moneyVars, ledgerVars, fleetVars, kitchenVars
  <2>5. OperatorKnows
    BY <1>1 DEF InitiateRead, OperatorKnows, TypeOK, TablesOK
  <2> QED BY <2>1, <2>3, <2>4, <2>5, Reads
<1>2. CASE Confirm(r, o)
  <2>1. known(On("confirmTx", o))
    BY <1>2, KnownOn DEF Confirm, OrderOnly
  <2> QED BY <1>2, <2>1, Arrives DEF Confirm
<1>3. CASE MarkFailed(r, o)
  <2>1. known(On("failCommit", o))
    BY <1>3, KnownOn, LoneIsAlone DEF MarkFailed
  <2> QED BY <1>3, <2>1, Arrives DEF MarkFailed
<1>4. CASE RefundRead(r, o)
  <2>1. known(On("refundCommit", o))
    BY <1>4, KnownOn, LoneIsAlone DEF RefundRead
  <2> QED BY <1>4, <2>1, Arrives DEF RefundRead
<1>5. CASE Abandon(r, o)
  <2> DEFINE row == [On("reconcile", o) EXCEPT !.back = "abandonRead"]
  <2>1. row.next = "reconcile" /\ row.order = o
    BY DEF On, Idle
  <2>2. Begin(r, "abandon", row) /\ UNCHANGED tables /\ exists(o)
    BY <1>5 DEF Abandon
  <2> HIDE DEF row
  <2>3. row.next \in OrderOnly /\ exists(row.order)
    BY <2>1, <2>2 DEF OrderOnly
  <2>4. known(row)
    BY <2>3, KnownPlain
  <2> QED BY <2>2, <2>4, Arrives
<1>6. CASE FindForOrder(r, o)
  <2>1. known(On("reconcile", o))
    BY <1>6, KnownOn DEF FindForOrder, OrderOnly
  <2> QED BY <1>6, <2>1, Arrives DEF FindForOrder
<1>7. ASSUME NEW outcome \in Outcomes, OperatorCalls(r, o, outcome) PROVE Stepped
  <2>1. exists(o)
    BY <1>7 DEF OperatorCalls, RowsHold, notYet
  <2> DEFINE row == Towards("callback", o, outcome)
  <2>2. row.next \in OrderOnly /\ exists(row.order)
    <3>1. row.next = "callback" /\ row.order = o
      BY DEF Towards, On, Idle
    <3> QED BY <2>1, <3>1 DEF OrderOnly
  <2> HIDE DEF row
  <2>3. known(row)
    BY <2>2, KnownPlain
  <2>4. Begin(r, "callback", row) /\ UNCHANGED tables
    BY <1>7 DEF OperatorCalls, row
  <2> QED BY <2>3, <2>4, Arrives
<1> QED BY <1>1, <1>2, <1>3, <1>4, <1>5, <1>6, <1>7

\* A driver is told apart from nobody.
LEMMA DriverNamed == NoDriver \notin Drivers
BY StoreAssumption DEF StoreAssumption

\* The move of a delivery reads where the delivery stands.
LEMMA KnownMove ==
  ASSUME NEW o, exists(o), NEW target, NEW row,
         row.next = "moveCommit", row.order = o, row.target = target,
         target \in DELIVERY_ACTIVE => delivery[o].status \in DELIVERY_ACTIVE
  PROVE  known(row)
BY DEF known, DriverSteps

\* A course belongs to an order that was placed.
LEMMA CoursePlaced ==
  ASSUME RowsHold, NEW o \in Orders, delivery[o].status # "ABSENT"
  PROVE  exists(o)
BY DEF RowsHold, notYet

\* Only a course under way moves, and an ended one does not start again.
LEMMA MoveFrom ==
  ASSUME NEW from, NEW to, canTransitionDelivery(from, to)
  PROVE  from # "ABSENT" /\ (to \in DELIVERY_ACTIVE => from \in DELIVERY_ACTIVE)
BY DEF canTransitionDelivery, DELIVERY_ACTIVE

\* The three routes that move a delivery read it alike.
LEMMA MoveRead ==
  ASSUME TypeOK, SInv, OneByOne, NEW r \in Requests, NEW o \in Orders, NEW op, NEW target,
         BeginMove(r, op, o, target)
  PROVE  Stepped
<1> DEFINE row == [Towards("moveCommit", o, target) EXCEPT !.driver = delivery[o].driver]
<1>1. row.next = "moveCommit" /\ row.order = o /\ row.target = target
  BY DEF Towards, On, Idle
<1>2. /\ Begin(r, op, row) /\ UNCHANGED tables
      /\ canTransitionDelivery(delivery[o].status, target)
  BY DEF BeginMove
<1> HIDE DEF row
<1>3. exists(o) /\ (target \in DELIVERY_ACTIVE => delivery[o].status \in DELIVERY_ACTIVE)
  BY <1>2, MoveFrom, CoursePlaced DEF SInv
<1>4. known(row)
  BY <1>1, <1>3, KnownMove
<1> QED BY <1>2, <1>4, Arrives DEF SInv

\* The requests of the deliveries service read what their commits rely on.
LEMMA DeliveriesRead ==
  ASSUME TypeOK, SInv, OneByOne, NEW r \in Requests, NEW o \in Orders,
         \/ \E d \in Drivers : AssignRead(r, o, d)
         \/ \E target \in DELIVERY_ACTIVE \union DELIVERY_TERMINAL :
              Advance(r, o, target) \/ UpdateStatusByStaff(r, o, target)
         \/ Fail(r, o) \/ Complete(r, o) \/ DeclineRead(r, o)
  PROVE  Stepped
<1> USE DEF SInv
<1>1. ASSUME NEW d \in Drivers, AssignRead(r, o, d) PROVE Stepped
  <2> DEFINE seen == (IF delivery[o].status # "ABSENT" THEN {"delivery"} ELSE {})
                       \union (IF order[o].status = "READY" THEN {"ready"} ELSE {})
             row == [On("assignCommit", o) EXCEPT !.driver = d,
                       !.previous = delivery[o].driver, !.seen = seen]
  <2>1. "ready" \in seen <=> order[o].status = "READY"
    OBVIOUS
  <2>2. /\ Begin(r, "assign", row) /\ UNCHANGED tables
        /\ order[o].status \in assignableStatuses /\ order[o].shape.type = "DELIVERY"
    BY <1>1 DEF AssignRead
  <2>3. exists(o)
    BY <2>2 DEF exists, assignableStatuses
  <2> HIDE DEF seen
  <2>4. row.next = "assignCommit" /\ row.order = o /\ row.seen = seen
    BY DEF On, Idle
  <2> HIDE DEF row
  <2>5. known(row)
    BY <2>1, <2>2, <2>3, <2>4 DEF known, DriverSteps
  <2> QED BY <2>2, <2>5, Arrives
<1>2. ASSUME NEW target \in DELIVERY_ACTIVE \union DELIVERY_TERMINAL,
             Advance(r, o, target) \/ UpdateStatusByStaff(r, o, target)
      PROVE  Stepped
  BY <1>2, MoveRead DEF Advance, UpdateStatusByStaff
<1>3. CASE Fail(r, o)
  BY <1>3, MoveRead DEF Fail
<1>4. CASE Complete(r, o)
  <2> DEFINE row == [Towards("moveCommit", o, "ARRIVED_AT_CUSTOMER") EXCEPT
                       !.driver = delivery[o].driver, !.back = "completeRead"]
  <2>1. CASE /\ delivery[o].status = "ARRIVED_AT_CUSTOMER"
             /\ Begin(r, "complete", On("completeRead", o))
    <3>1. exists(o)
      BY <2>1, CoursePlaced
    <3>2. known(On("completeRead", o))
      BY <3>1, KnownOn DEF OrderOnly
    <3> QED BY <1>4, <2>1, <3>2, Arrives DEF Complete
  <2>2. CASE /\ canTransitionDelivery(delivery[o].status, "ARRIVED_AT_CUSTOMER")
             /\ Begin(r, "complete", row)
    <3>1. row.next = "moveCommit" /\ row.order = o /\ row.target = "ARRIVED_AT_CUSTOMER"
      BY DEF Towards, On, Idle
    <3>2. exists(o) /\ delivery[o].status \in DELIVERY_ACTIVE
      BY <2>2, MoveFrom, CoursePlaced DEF DELIVERY_ACTIVE
    <3> HIDE DEF row
    <3>3. known(row)
      BY <3>1, <3>2, KnownMove
    <3> QED BY <1>4, <2>2, <3>3, Arrives DEF Complete
  <2> QED BY <1>4, <2>1, <2>2 DEF Complete
<1>5. CASE DeclineRead(r, o)
  <2> DEFINE row == [On("declineCommit", o) EXCEPT !.driver = delivery[o].driver]
  <2>1. row.next = "declineCommit" /\ row.order = o
    BY DEF On, Idle
  <2>2. /\ Begin(r, "decline", row) /\ UNCHANGED tables /\ delivery[o].status = "ASSIGNED"
    BY <1>5 DEF DeclineRead
  <2> HIDE DEF row
  <2>3. row.next \in OrderOnly /\ exists(row.order)
    BY <2>1, <2>2, CoursePlaced DEF OrderOnly
  <2>4. known(row)
    BY <2>3, KnownPlain
  <2> QED BY <2>2, <2>4, Arrives
<1> QED BY <1>1, <1>2, <1>3, <1>4, <1>5

\* So do those of the drivers service.
LEMMA DriversRead ==
  ASSUME TypeOK, SInv, OneByOne, NEW r \in Requests, NEW d \in Drivers,
         \/ \E presence \in Presences : UpdateAvailabilityRead(r, d, presence)
         \/ \E status \in AccountStatuses : SetStatusRead(r, d, status)
  PROVE  Stepped
<1> USE DEF SInv
<1>1. ASSUME NEW presence \in Presences, UpdateAvailabilityRead(r, d, presence) PROVE Stepped
  <2> DEFINE seen == IF activeDeliveries(delivery, d) = {} THEN {} ELSE {"active"}
             row == [Idle EXCEPT !.next = "availabilityCommit", !.driver = d,
                                 !.target = presence, !.seen = seen]
  <2>1. row.next = "availabilityCommit"
    BY DEF Idle
  <2>2. Begin(r, "availability", row) /\ UNCHANGED tables
    BY <1>1 DEF UpdateAvailabilityRead
  <2> HIDE DEF row
  <2>3. known(row)
    BY <2>1 DEF known, DriverSteps
  <2> QED BY <2>2, <2>3, Arrives
<1>2. ASSUME NEW status \in AccountStatuses, SetStatusRead(r, d, status) PROVE Stepped
  <2> DEFINE row == [Idle EXCEPT !.next = "driverStatusCommit", !.driver = d, !.target = status]
  <2>1. row.next = "driverStatusCommit" /\ row.driver = d /\ row.target = status
    BY DEF Idle
  <2>2. /\ Begin(r, "driverStatus", row) /\ UNCHANGED tables
        /\ status = "SUSPENDED" => activeDeliveries(delivery, d) = {}
    BY <1>2 DEF SetStatusRead
  <2> HIDE DEF row
  <2>3. known(row)
    BY <2>1, <2>2 DEF known, DriverSteps
  <2> QED BY <2>2, <2>3, Arrives
<1> QED BY <1>1, <1>2

(***************************************************************************)
(* Steps that go on without writing                                        *)
(***************************************************************************)
\* The same row at another step: the order and the target are kept.
LEMMA SameRow ==
  ASSUME TypeOK, NEW r \in Requests, NEW step, NEW seen
  PROVE  /\ [requests[r] EXCEPT !.next = step].next = step
         /\ [requests[r] EXCEPT !.next = step].order = requests[r].order
         /\ [requests[r] EXCEPT !.next = step].target = requests[r].target
         /\ [requests[r] EXCEPT !.next = step, !.seen = seen].next = step
         /\ [requests[r] EXCEPT !.next = step, !.seen = seen].order = requests[r].order
         /\ [requests[r] EXCEPT !.next = step, !.seen = seen].seen = seen
BY DEF TypeOK, RequestsOK, RequestRows

\* A request at work on an order that was placed.
LEMMA AtWork ==
  ASSUME TypeOK, SInv, NEW r \in Requests, NEW step, At(r, step),
         step \in Steps \ ({"idle", "createCommit"} \union DriverSteps)
  PROVE  /\ requests[r].next = step /\ requests[r].order \in Orders
         /\ exists(requests[r].order) /\ known(requests[r])
         /\ lone(r)
<1>1. requests[r].next = step /\ step \notin {"idle", "createCommit"} \union DriverSteps
  BY DEF At
<1>2. requests[r].order \in Orders
  BY <1>1, AtOrder DEF TypeOK
<1>3. known(requests[r])
  BY DEF SInv, StillTrue
<1>4. exists(requests[r].order)
  BY <1>1, <1>3 DEF known
<1>5. lone(r)
  BY <1>1, LoneIsAlone DEF SInv
<1> QED BY <1>1, <1>2, <1>3, <1>4, <1>5

\* The steps of the orders service that only read.
LEMMA OrdersGoOn ==
  ASSUME TypeOK, SInv, NEW r \in Requests, ConsumeRead(r) \/ SystemRead(r)
  PROVE  Stepped
<1> USE DEF SInv
<1>1. CASE ConsumeRead(r)
  <2>1. requests[r].next = "consumeRead" /\ UNCHANGED tables
    BY <1>1 DEF ConsumeRead, At
  <2>2. CASE order[requests[r].order].consumed
    BY <1>1, <2>1, <2>2, ReturnsKnowing DEF ConsumeRead, DriverSteps
  <2>3. CASE ~ order[requests[r].order].consumed
    <3>1. PICK o : o = requests[r].order
      OBVIOUS
    <3> DEFINE row == [requests[r] EXCEPT !.next = "consumeWrite"]
    <3>2. row.next = "consumeWrite" /\ row.order = o
      BY <3>1, SameRow
    <3>3. Continue(r, row)
      BY <1>1, <2>3 DEF ConsumeRead
    <3>4. exists(o)
      BY <1>1, <3>1, AtWork DEF ConsumeRead, Steps, DriverSteps
    <3> HIDE DEF row
    <3>5. known(row)
      BY <2>3, <3>1, <3>2, <3>4 DEF known, DriverSteps
    <3> QED BY <2>1, <3>3, <3>5, GoesOnKnowing
  <2> QED BY <2>2, <2>3
<1>2. CASE SystemRead(r)
  <2>1. requests[r].next = "systemRead" /\ UNCHANGED tables
    BY <1>2 DEF SystemRead, At
  <2>2. PICK o, target : o = requests[r].order /\ target = requests[r].target
    OBVIOUS
  <2>3. CASE ~ mayTransition(order[o].status, target, order[o].shape.type)
    <3>1. Continue(r, Idle) /\ known(Idle)
      BY <1>2, <2>2, <2>3, KnownIdle DEF SystemRead, Finish, Idle
    <3> QED BY <2>1, <3>1, GoesOnKnowing
  <2>4. CASE mayTransition(order[o].status, target, order[o].shape.type)
    <3> DEFINE row == [requests[r] EXCEPT !.next = "systemCommit"]
    <3>1. row.next = "systemCommit" /\ row.order = o /\ row.target = target
      BY <2>2, SameRow
    <3>2. Continue(r, row)
      BY <1>2, <2>2, <2>4 DEF SystemRead
    <3>3. exists(o) /\ known(requests[r])
      BY <1>2, <2>2, AtWork DEF SystemRead, Steps, DriverSteps
    <3>4. /\ target \in {"OUT_FOR_DELIVERY", "DELIVERED"}
          /\ target = "DELIVERED" => delivery[o].status = "DELIVERED"
      BY <2>1, <2>2, <3>3 DEF known
    <3> HIDE DEF row
    <3>5. known(row)
      BY <2>4, <3>1, <3>3, <3>4 DEF known, DriverSteps
    <3> QED BY <2>1, <3>2, <3>5, GoesOnKnowing
  <2> QED BY <2>3, <2>4
<1> QED BY <1>1, <1>2

\* The steps of the payments service that read the payment and go on.
LEMMA PaymentsGoOn ==
  ASSUME TypeOK, SInv, NEW r \in Requests,
         ConfirmRead(r) \/ ConfirmTx(r) \/ AbandonRead(r) \/ AbandonTx(r)
  PROVE  Stepped
<1> USE DEF SInv
<1>1. CASE ConfirmRead(r)
  <2>1. requests[r].next = "confirmRead" /\ UNCHANGED tables
    BY <1>1 DEF ConfirmRead, At
  <2>2. CASE Continue(r, Idle)
    BY <2>1, <2>2, KnownIdle, GoesOnKnowing DEF Idle
  <2>3. CASE Continue(r, [requests[r] EXCEPT !.next = "confirmTx"])
    <3> DEFINE row == [requests[r] EXCEPT !.next = "confirmTx"]
    <3>1. row.next = "confirmTx" /\ row.order = requests[r].order
      BY SameRow
    <3>2. exists(requests[r].order)
      BY <1>1, AtWork DEF ConfirmRead, Steps, DriverSteps
    <3>3. Continue(r, row)
      BY <2>3
    <3> HIDE DEF row
    <3>4. known(row)
      BY <3>1, <3>2 DEF known, DriverSteps
    <3> QED BY <2>1, <3>3, <3>4, GoesOnKnowing
  <2> QED BY <1>1, <2>2, <2>3 DEF ConfirmRead, Finish
<1>2. CASE ConfirmTx(r)
  <2>1. PICK o : o = requests[r].order
    OBVIOUS
  <2> DEFINE annulee == order[o].status = "CANCELLED"
             retablir == annulee /\ cancelledForNonPayment(order[o].reason)
             seen == (IF annulee THEN {"cancelled"} ELSE {})
                       \union (IF retablir THEN {"revivable"} ELSE {})
             row == [requests[r] EXCEPT !.next = "confirmCommit", !.seen = seen]
  <2>2. requests[r].next = "confirmTx" /\ UNCHANGED tables /\ Continue(r, row)
    BY <1>2, <2>1 DEF ConfirmTx, At
  <2>3. "revivable" \in seen =>
          order[o].status = "CANCELLED" /\ cancelledForNonPayment(order[o].reason)
    OBVIOUS
  <2>4. exists(o)
    BY <1>2, <2>1, AtWork DEF ConfirmTx, Steps, DriverSteps
  <2> HIDE DEF seen
  <2>5. row.next = "confirmCommit" /\ row.order = o /\ row.seen = seen
    BY <2>1, SameRow
  <2> HIDE DEF row
  <2>6. known(row)
    BY <2>3, <2>4, <2>5 DEF known, DriverSteps
  <2> QED BY <2>2, <2>6, GoesOnKnowing
<1>3. CASE AbandonRead(r)
  <2>1. requests[r].next = "abandonRead" /\ UNCHANGED tables /\ exists(requests[r].order)
    BY <1>3, AtWork DEF AbandonRead, Steps, DriverSteps
  <2>2. CASE payment[requests[r].order] \in {"PENDING", "PROCESSING"}
    <3>1. Continue(r, On("abandonTx", requests[r].order))
      BY <1>3, <2>2 DEF AbandonRead
    <3>2. known(On("abandonTx", requests[r].order))
      BY <2>1, <2>2, KnownOn
    <3> QED BY <2>1, <3>1, <3>2, GoesOnKnowing
  <2>3. CASE payment[requests[r].order] \notin {"PENDING", "PROCESSING"}
    <3>1. Continue(r, On("reconcile", requests[r].order))
      BY <1>3, <2>3 DEF AbandonRead
    <3>2. known(On("reconcile", requests[r].order))
      BY <2>1, KnownOn DEF OrderOnly
    <3> QED BY <2>1, <3>1, <3>2, GoesOnKnowing
  <2> QED BY <2>2, <2>3
<1>4. CASE AbandonTx(r)
  <2>1. PICK o : o = requests[r].order
    OBVIOUS
  <2> DEFINE seen == IF order[o].status = "PENDING" THEN {"pending"} ELSE {}
             row == [On("abandonCommit", o) EXCEPT !.seen = seen]
  <2>2. requests[r].next = "abandonTx" /\ UNCHANGED tables /\ Continue(r, row)
    BY <1>4, <2>1 DEF AbandonTx, At
  <2>3. "pending" \in seen => order[o].status = "PENDING"
    OBVIOUS
  <2>4. exists(o) /\ payment[o] \in {"PENDING", "PROCESSING"}
    BY <1>4, <2>1, <2>2, AtWork DEF AbandonTx, Steps, DriverSteps, known
  <2> HIDE DEF seen
  <2>5. row.next = "abandonCommit" /\ row.order = o /\ row.seen = seen
    BY DEF On, Idle
  <2> HIDE DEF row
  <2>6. known(row)
    BY <2>3, <2>4, <2>5 DEF known, DriverSteps
  <2> QED BY <2>2, <2>6, GoesOnKnowing
<1> QED BY <1>1, <1>2, <1>3, <1>4

\* The steps by which the payments service learns from the operator.
LEMMA OperatorGoOn ==
  ASSUME TypeOK, SInv, NEW r \in Requests, Reconcile(r) \/ Ask(r) \/ ApplyCallback(r)
  PROVE  Stepped
<1> USE DEF SInv
<1>1. CASE Reconcile(r)
  <2>1. requests[r].next = "reconcile" /\ UNCHANGED tables /\ exists(requests[r].order)
    BY <1>1, AtWork DEF Reconcile, Steps, DriverSteps
  <2>2. CASE Return(r)
    BY <2>1, <2>2, ReturnsKnowing DEF DriverSteps
  <2>3. CASE Continue(r, [requests[r] EXCEPT !.next = "ask"])
    <3> DEFINE row == [requests[r] EXCEPT !.next = "ask"]
    <3>1. row.next = "ask" /\ row.order = requests[r].order /\ Continue(r, row)
      BY <2>3, SameRow
    <3> HIDE DEF row
    <3>2. known(row)
      BY <2>1, <3>1 DEF known, DriverSteps
    <3> QED BY <2>1, <3>1, <3>2, GoesOnKnowing
  <2> QED BY <1>1, <2>2, <2>3 DEF Reconcile
<1>2. CASE Ask(r)
  <2>1. requests[r].next = "ask" /\ UNCHANGED tables /\ exists(requests[r].order)
    BY <1>2, AtWork DEF Ask, Steps, DriverSteps
  <2>2. CASE Return(r)
    BY <2>1, <2>2, ReturnsKnowing DEF DriverSteps
  <2>3. ASSUME NEW state,
               Continue(r, [requests[r] EXCEPT !.next = "callback", !.target = state])
        PROVE  Stepped
    <3> DEFINE row == [requests[r] EXCEPT !.next = "callback", !.target = state]
    <3>1. row.next = "callback" /\ row.order = requests[r].order /\ Continue(r, row)
      BY <2>3 DEF TypeOK, RequestsOK, RequestRows
    <3> HIDE DEF row
    <3>2. known(row)
      BY <2>1, <3>1 DEF known, DriverSteps
    <3> QED BY <2>1, <3>1, <3>2, GoesOnKnowing
  <2> QED BY <1>2, <2>2, <2>3 DEF Ask
<1>3. CASE ApplyCallback(r)
  <2>1. PICK o, outcome : o = requests[r].order /\ outcome = requests[r].target
    OBVIOUS
  <2>2. requests[r].next = "callback" /\ UNCHANGED tables /\ exists(o)
    BY <1>3, <2>1, AtWork DEF ApplyCallback, Steps, DriverSteps
  <2>3. CASE calledBack(outcome, payment[o]) = "nothing"
    <3>1. Return(r)
      BY <1>3, <2>1, <2>3 DEF ApplyCallback
    <3> QED BY <2>2, <3>1, ReturnsKnowing DEF DriverSteps
  <2>4. CASE calledBack(outcome, payment[o]) # "nothing"
    <3>1. PICK step : step = calledBack(outcome, payment[o])
      OBVIOUS
    <3> DEFINE row == [requests[r] EXCEPT !.next = step, !.target = "none"]
    <3>2. row.next = step /\ row.order = o
      BY <2>1 DEF TypeOK, RequestsOK, RequestRows
    <3>3. Continue(r, row)
      BY <1>3, <2>1, <2>4, <3>1 DEF ApplyCallback
    <3>4. step = "confirmRead" \/ (step = "failCommit" /\ payment[o] # "PAID")
      BY <2>4, <3>1 DEF calledBack
    <3> HIDE DEF row
    <3>5. known(row)
      BY <2>2, <3>2, <3>4 DEF known, DriverSteps
    <3> QED BY <2>2, <3>3, <3>5, GoesOnKnowing
  <2> QED BY <2>3, <2>4
<1> QED BY <1>1, <1>2, <1>3

\* The steps of the deliveries service that only read.
LEMMA DeliveriesGoOn ==
  ASSUME TypeOK, SInv, NEW r \in Requests, AssignFails(r) \/ CompleteRead(r)
  PROVE  Stepped
<1> USE DEF SInv
<1>1. CASE AssignFails(r)
  <2>1. requests[r].next = "assignCommit" /\ UNCHANGED tables /\ Continue(r, Idle)
    BY <1>1 DEF AssignFails, At, Finish
  <2> QED BY <2>1, KnownIdle, GoesOnKnowing DEF Idle
<1>2. CASE CompleteRead(r)
  <2>1. PICK o : o = requests[r].order
    OBVIOUS
  <2> DEFINE row == [Towards("moveCommit", o, "DELIVERED") EXCEPT !.driver = delivery[o].driver]
  <2>2. row.next = "moveCommit" /\ row.order = o /\ row.target = "DELIVERED"
    BY DEF Towards, On, Idle
  <2>3. requests[r].next = "completeRead" /\ UNCHANGED tables /\ exists(o) /\ Continue(r, row)
    BY <1>2, <2>1, AtWork DEF CompleteRead, Steps, DriverSteps
  <2> HIDE DEF row
  <2>4. known(row)
    BY <2>2, <2>3, KnownMove DEF DELIVERY_ACTIVE
  <2> QED BY <2>3, <2>4, GoesOnKnowing
<1> QED BY <1>1, <1>2

(***************************************************************************)
(* What the shared writes leave in the rows                                *)
(***************************************************************************)
\* An order row is another one in some of its columns, no other row moves, and its
\* shape is what the customer fixed.
Rewritten(o, status, copy, reason, consumed) ==
  /\ order'[o].status = status /\ order'[o].paymentStatus = copy
  /\ order'[o].reason = reason /\ order'[o].consumed = consumed
  /\ \A q \in Orders \ {o} : order'[q] = order[q]
  /\ ShapesKept

\* The writes of one order row, column by column.
LEMMA RowWrites ==
  ASSUME TypeOK, NEW o \in Orders, NEW status, NEW copy, NEW reason
  PROVE  /\ order' = [order EXCEPT ![o].status = status] =>
              Rewritten(o, status, order[o].paymentStatus, order[o].reason, order[o].consumed)
         /\ order' = [order EXCEPT ![o].paymentStatus = copy] =>
              Rewritten(o, order[o].status, copy, order[o].reason, order[o].consumed)
         /\ order' = [order EXCEPT ![o].status = status, ![o].paymentStatus = copy] =>
              Rewritten(o, status, copy, order[o].reason, order[o].consumed)
         /\ order' = [order EXCEPT ![o].status = status, ![o].reason = reason] =>
              Rewritten(o, status, order[o].paymentStatus, reason, order[o].consumed)
         /\ order' = [order EXCEPT ![o].status = status, ![o].reason = reason,
                                   ![o].paymentStatus = copy] =>
              Rewritten(o, status, copy, reason, order[o].consumed)
         /\ order' = [order EXCEPT ![o].paymentStatus = copy, ![o].status = status,
                                   ![o].reason = reason] =>
              Rewritten(o, status, copy, reason, order[o].consumed)
         /\ order' = [order EXCEPT ![o].consumed = TRUE] =>
              Rewritten(o, order[o].status, order[o].paymentStatus, order[o].reason, TRUE)
         /\ order' = order =>
              Rewritten(o, order[o].status, order[o].paymentStatus, order[o].reason,
                        order[o].consumed)
<1> USE DEF TypeOK, TablesOK, OrderRows, Rewritten, ShapesKept
<1>1. order' = [order EXCEPT ![o].status = status] =>
        Rewritten(o, status, order[o].paymentStatus, order[o].reason, order[o].consumed)
  OBVIOUS
<1>2. order' = [order EXCEPT ![o].paymentStatus = copy] =>
        Rewritten(o, order[o].status, copy, order[o].reason, order[o].consumed)
  OBVIOUS
<1>3. order' = [order EXCEPT ![o].status = status, ![o].paymentStatus = copy] =>
        Rewritten(o, status, copy, order[o].reason, order[o].consumed)
  OBVIOUS
<1>4. order' = [order EXCEPT ![o].status = status, ![o].reason = reason] =>
        Rewritten(o, status, order[o].paymentStatus, reason, order[o].consumed)
  OBVIOUS
<1>5. order' = [order EXCEPT ![o].status = status, ![o].reason = reason,
                             ![o].paymentStatus = copy] =>
        Rewritten(o, status, copy, reason, order[o].consumed)
  OBVIOUS
<1>6. order' = [order EXCEPT ![o].paymentStatus = copy, ![o].status = status,
                             ![o].reason = reason] =>
        Rewritten(o, status, copy, reason, order[o].consumed)
  OBVIOUS
<1>7. order' = [order EXCEPT ![o].consumed = TRUE] =>
        Rewritten(o, order[o].status, order[o].paymentStatus, order[o].reason, TRUE)
  OBVIOUS
<1>8. order' = order =>
        Rewritten(o, order[o].status, order[o].paymentStatus, order[o].reason, order[o].consumed)
  OBVIOUS
<1> QED BY <1>1, <1>2, <1>3, <1>4, <1>5, <1>6, <1>7, <1>8

\* A payment row moves alone.
LEMMA PaymentWrites ==
  ASSUME TypeOK, NEW o \in Orders, NEW status
  PROVE  /\ payment' = [payment EXCEPT ![o] = status] =>
              payment'[o] = status /\ \A q \in Orders \ {o} : payment'[q] = payment[q]
         /\ payment' = payment =>
              payment'[o] = payment[o] /\ \A q \in Orders \ {o} : payment'[q] = payment[q]
BY DEF TypeOK, TablesOK

\* A request that writes the rows of one order, with one of the effects.
LEMMA Writes ==
  ASSUME TypeOK, NEW r \in Requests, NEW row, NEW o \in Orders, lone(r),
         requests[r].next # "initiateCopy", UNCHANGED <<operator, perimees>>,
         requests' = [requests EXCEPT ![r] = row], known(row)',
         NEW status, NEW copy, NEW reason, NEW consumed,
         Rewritten(o, status, copy, reason, consumed), SameCrew, Effect(o),
         \A q \in Orders \ {o} : /\ payment'[q] = payment[q] /\ delivery'[q] = delivery[q]
                                 /\ deducted'[q] = deducted[q]
  PROVE  Stepped
<1>1. Alone' /\ Overdue' /\ StillTrue' /\ CopyComes
  BY OneSlot
<1>2. \A q \in Orders \ {o} : Same(q)
  BY DEF Rewritten, Same, KeepsStatus, KeepsMoney, KeepsStock, KeepsCourse
<1>3. ShapesKept /\ OperatorKnows
  BY DEF Rewritten, OperatorKnows
<1> QED BY <1>1, <1>2, <1>3 DEF Stepped, Summary, OneOrderMoves

\* Moving and settling an order, as an effect on its rows.
LEMMA MovesRow ==
  ASSUME TypeOK, NEW o \in Orders, NEW target, MoveAndSettle(o, target)
  PROVE  /\ Rewritten(o, target, IF target = "DELIVERED" /\ order[o].shape.method = "COD"
                                   THEN "PAID" ELSE order[o].paymentStatus,
                      order[o].reason, order[o].consumed)
         /\ \A q \in Orders \ {o} : payment'[q] = payment[q]
         /\ \/ KeepsMoney(o)
            \/ /\ order[o].shape.method = "COD"
               /\ order'[o].paymentStatus = "PAID" /\ payment'[o] \in {payment[o], "PAID"}
         /\ profile' = IF target = "DELIVERED" /\ account(o)
                         THEN [profile EXCEPT !.spent = @ + 1] ELSE profile
<1>1. PICK copy : copy = IF target = "DELIVERED" /\ order[o].shape.method = "COD"
                           THEN "PAID" ELSE order[o].paymentStatus
  OBVIOUS
<1>2. order' = [order EXCEPT ![o].status = target, ![o].paymentStatus = copy]
  BY <1>1 DEF MoveAndSettle, cashSettled, settles, TypeOK, TablesOK, OrderRows
<1>3. Rewritten(o, target, copy, order[o].reason, order[o].consumed)
  BY <1>2, RowWrites
<1>4. /\ \A q \in Orders \ {o} : payment'[q] = payment[q]
      /\ payment'[o] \in {payment[o], "PAID"}
      /\ ~ (target = "DELIVERED" /\ order[o].shape.method = "COD") => payment'[o] = payment[o]
  BY DEF MoveAndSettle, cashSettled, settles, TypeOK, TablesOK, moneyVars
<1>5. \/ KeepsMoney(o)
      \/ /\ order[o].shape.method = "COD"
         /\ order'[o].paymentStatus = "PAID" /\ payment'[o] \in {payment[o], "PAID"}
  BY <1>1, <1>3, <1>4 DEF Rewritten, KeepsMoney
<1>6. profile' = IF target = "DELIVERED" /\ account(o)
                   THEN [profile EXCEPT !.spent = @ + 1] ELSE profile
  BY DEF MoveAndSettle, settles
<1> QED BY <1>1, <1>3, <1>4, <1>5, <1>6

(***************************************************************************)
(* What each commit does to its order                                      *)
(***************************************************************************)
\* The orders service inserts an order that was not there.
LEMMA CreateWrites ==
  ASSUME TypeOK, SInv, NEW r \in Requests, CreateCommit(r)
  PROVE  Stepped
<1>1. PICK o \in Orders : o = requests[r].order
  BY AtOrder DEF CreateCommit, At, TypeOK, DriverSteps
<1>2. /\ requests[r].next = "createCommit" /\ lone(r)
      /\ ~ exists(o) /\ account(o)
  BY <1>1, LoneIsAlone DEF CreateCommit, At, SInv, StillTrue, known
<1>3. PICK row : /\ requests' = [requests EXCEPT ![r] = row]
                 /\ row.next = "idle" \/ (row.next = "announce" /\ row.order = o)
  <2>1. PICK next : /\ next \in {On("announce", o), Idle}
                    /\ requests' = [requests EXCEPT ![r] = next]
    BY <1>1 DEF CreateCommit, Continue
  <2>2. next.next = "idle" \/ (next.next = "announce" /\ next.order = o)
    BY <2>1, OnFields
  <2> QED BY <2>1, <2>2
<1>4. Rewritten(o, "PENDING", order[o].paymentStatus, order[o].reason, order[o].consumed)
  BY <1>1, RowWrites DEF CreateCommit, WriteStatus
<1>5. /\ payment' = [payment EXCEPT ![o] = "PENDING"]
      /\ profile' = [profile EXCEPT !.placed = @ + 1] /\ TakeCoupon(o)
      /\ UNCHANGED <<driver, delivery, deducted, operator, perimees>>
  BY <1>1 DEF CreateCommit, fleetVars, kitchenVars
<1>6. payment'[o] = "PENDING" /\ \A q \in Orders \ {o} : payment'[q] = payment[q]
  BY <1>5, PaymentWrites
<1>7. Effect(o) /\ SameCrew
  BY <1>2, <1>4, <1>5, <1>6 DEF Effect, Created, Rewritten, KeepsStock, KeepsCourse, SameCrew
<1>8. exists(o)'
  BY <1>4 DEF Rewritten, exists
<1>9. known(row)'
  BY <1>3, <1>8 DEF known, DriverSteps
<1> QED BY <1>2, <1>3, <1>4, <1>5, <1>6, <1>7, <1>9, Writes

\* The counter sells an order that was not there.
LEMMA SaleWrites ==
  ASSUME TypeOK, SInv, OneByOne, NEW r \in Requests, NEW o \in Orders, PosCreate(r, o)
  PROVE  Stepped
<1> DEFINE row == [On("consumeRead", o) EXCEPT !.back = "announce"]
<1>1. row.next = "consumeRead" /\ row.order = o
  BY DEF On, Idle
<1>2. /\ Begin(r, "pos", row) /\ ~ exists(o) /\ order[o].shape.channel = "POS"
      /\ UNCHANGED <<coupon, profile, driver, delivery, deducted, operator, perimees>>
  BY DEF PosCreate, ledgerVars, fleetVars, kitchenVars
<1> HIDE DEF row
<1>3. PICK line : line = row
  OBVIOUS
<1>4. lone(r) /\ requests[r].next = "idle" /\ requests' = [requests EXCEPT ![r] = line]
  BY <1>2, <1>3, LoneIsAlone DEF SInv
<1>5. PICK status \in {"DELIVERED", "CONFIRMED"}, paid \in {"PAID", "PENDING"} :
        /\ order' = [order EXCEPT ![o].status = status, ![o].paymentStatus = paid]
        /\ payment' = [payment EXCEPT ![o] = paid]
  BY DEF PosCreate
<1>6. Rewritten(o, status, paid, order[o].reason, order[o].consumed)
  BY <1>5, RowWrites
<1>7. payment'[o] = paid /\ \A q \in Orders \ {o} : payment'[q] = payment[q]
  BY <1>5, PaymentWrites
<1>8. Effect(o) /\ SameCrew
  BY <1>2, <1>6, <1>7 DEF Effect, Sold, Rewritten, KeepsStock, KeepsCourse, SameCrew, SameLedgers
<1>9. exists(o)'
  BY <1>6 DEF Rewritten, exists
<1>10. known(line)'
  BY <1>1, <1>3, <1>9 DEF known, DriverSteps
<1> QED BY <1>2, <1>4, <1>6, <1>7, <1>8, <1>10, Writes

\* The back office moves an order, and closes the course of one it delivers.
LEMMA StatusWrites ==
  ASSUME TypeOK, SInv, NEW r \in Requests, UpdateStatusCommit(r)
  PROVE  Stepped
<1>1. PICK o \in Orders : o = requests[r].order
  BY AtOrder DEF UpdateStatusCommit, At, TypeOK, DriverSteps
<1>a. PICK target : target = requests[r].target
  OBVIOUS
<1>2. /\ requests[r].next = "statusCommit" /\ lone(r) /\ exists(o) /\ target # "CANCELLED"
      /\ mayTransition(order[o].status, target, order[o].shape.type)
      /\ ~ isUnpaidOnline(order[o].shape, order[o].paymentStatus)
  BY <1>1, <1>a, AtWork DEF UpdateStatusCommit, Steps, DriverSteps, known
<1>3. PICK row : /\ requests' = [requests EXCEPT ![r] = row]
                 /\ row.next = "idle" \/ (row.next = "consumeRead" /\ row.order = o)
  <2>1. PICK next : /\ next \in {On("consumeRead", o), Idle}
                    /\ requests' = [requests EXCEPT ![r] = next]
    BY <1>1 DEF UpdateStatusCommit, Continue
  <2>2. next.next = "idle" \/ (next.next = "consumeRead" /\ next.order = o)
    BY <2>1, OnFields
  <2> QED BY <2>1, <2>2
<1>4. /\ MoveAndSettle(o, target) /\ closeDeliveryWith(o, target) /\ coupon' = coupon
      /\ UNCHANGED <<deducted, operator, perimees>>
  BY <1>1, <1>a DEF UpdateStatusCommit, kitchenVars
<1>5. PICK copy : Rewritten(o, target, copy, order[o].reason, order[o].consumed)
  BY <1>4, MovesRow
<1>6. /\ \A q \in Orders \ {o} : delivery'[q] = delivery[q]
      /\ KeepsCourse(o) \/ delivery'[o].status = "DELIVERED"
      /\ target = "DELIVERED" => delivery'[o].status \notin DELIVERY_ACTIVE
      /\ SameCrew
  <2>1. delivery \in [Orders -> DeliveryRows] /\ driver \in [Drivers -> DriverRows]
    BY DEF TypeOK, TablesOK
  <2>2. CASE target = "DELIVERED" /\ delivery[o].status \in DELIVERY_ACTIVE
    <3>1. /\ delivery' = [delivery EXCEPT ![o].status = "DELIVERED"]
          /\ driver' = [d \in Drivers |->
                          IF d = delivery[o].driver
                            THEN [driver[d] EXCEPT !.available = TRUE] ELSE driver[d]]
      BY <1>4, <2>2 DEF closeDeliveryWith
    <3>2. delivery'[o].status = "DELIVERED" /\ \A q \in Orders \ {o} : delivery'[q] = delivery[q]
      BY <2>1, <3>1 DEF DeliveryRows
    <3>3. SameCrew
      BY <2>1, <3>1 DEF SameCrew, DriverRows
    <3>4. "DELIVERED" \notin DELIVERY_ACTIVE
      BY DEF DELIVERY_ACTIVE
    <3> QED BY <3>2, <3>3, <3>4
  <2>3. CASE ~ (target = "DELIVERED" /\ delivery[o].status \in DELIVERY_ACTIVE)
    <3>1. delivery' = delivery /\ driver' = driver
      BY <1>4, <2>3 DEF closeDeliveryWith, fleetVars
    <3> QED BY <2>3, <3>1 DEF KeepsCourse, SameCrew
  <2> QED BY <2>2, <2>3
<1>7. onlineToSettle(order[o].shape) => order[o].paymentStatus = "PAID"
  BY <1>2 DEF isUnpaidOnline
<1>8. KeepsStock(o)
  BY <1>4, <1>5 DEF KeepsStock, Rewritten
<1>9. Moved(o)
  BY <1>2, <1>4, <1>5, <1>6, <1>7, <1>8, MovesRow DEF Moved, Rewritten
<1>10. exists(o)'
  BY <1>2, <1>5 DEF Rewritten, exists, mayTransition, canTransition
<1>11. known(row)'
  BY <1>3, <1>10 DEF known, DriverSteps
<1>12. /\ \A q \in Orders \ {o} : payment'[q] = payment[q]
       /\ deducted' = deducted
  BY <1>4, MovesRow
<1>13. Effect(o)
  BY <1>9 DEF Effect
<1> QED BY <1>2, <1>3, <1>4, <1>5, <1>6, <1>11, <1>12, <1>13, Writes

\* A delivery moves its order.
LEMMA SystemWrites ==
  ASSUME TypeOK, SInv, NEW r \in Requests, SystemCommit(r)
  PROVE  Stepped
<1>1. PICK o \in Orders : o = requests[r].order
  BY AtOrder DEF SystemCommit, At, TypeOK, DriverSteps
<1>a. PICK target : target = requests[r].target
  OBVIOUS
<1>2. /\ requests[r].next = "systemCommit" /\ lone(r) /\ exists(o)
      /\ mayTransition(order[o].status, target, order[o].shape.type)
      /\ target \in {"OUT_FOR_DELIVERY", "DELIVERED"}
      /\ target = "DELIVERED" => delivery[o].status = "DELIVERED"
  BY <1>1, <1>a, AtWork DEF SystemCommit, Steps, DriverSteps, known
<1>3. PICK row : requests' = [requests EXCEPT ![r] = row] /\ row.next = "idle"
  BY OnFields DEF SystemCommit, Finish, Continue
<1>4. /\ MoveAndSettle(o, target) /\ coupon' = coupon
      /\ UNCHANGED <<delivery, driver, deducted, operator, perimees>>
  BY <1>1, <1>a DEF SystemCommit, kitchenVars, fleetVars
<1>5. PICK copy : Rewritten(o, target, copy, order[o].reason, order[o].consumed)
  BY <1>4, MovesRow
<1>6. order[o].status # "PENDING" /\ target # "CANCELLED" /\ "DELIVERED" \notin DELIVERY_ACTIVE
  BY <1>2 DEF mayTransition, canTransition, DELIVERY_ACTIVE
<1>7. KeepsStock(o) /\ KeepsCourse(o) /\ SameCrew
  BY <1>4, <1>5 DEF KeepsStock, Rewritten, KeepsCourse, SameCrew
<1>8. Moved(o)
  BY <1>2, <1>4, <1>5, <1>6, <1>7, MovesRow DEF Moved, Rewritten
<1>9. known(row)'
  BY <1>3 DEF known, DriverSteps
<1>10. \A q \in Orders \ {o} : payment'[q] = payment[q]
  BY <1>4, MovesRow
<1>11. Effect(o)
  BY <1>8 DEF Effect
<1> QED BY <1>2, <1>3, <1>4, <1>5, <1>7, <1>9, <1>10, <1>11, Writes

\* A person cancels an order: its course, when there is one, ends with it.
LEMMA CancelWrites ==
  ASSUME TypeOK, SInv, NEW r \in Requests, CancelCommit(r)
  PROVE  Stepped
<1>1. PICK o \in Orders : o = requests[r].order
  BY AtOrder DEF CancelCommit, At, TypeOK, DriverSteps
<1>a. PICK seen, d : seen = requests[r].seen /\ d = requests[r].driver
  OBVIOUS
<1>2. /\ requests[r].next = "cancelCommit" /\ lone(r) /\ exists(o)
      /\ mayTransition(order[o].status, "CANCELLED", order[o].shape.type)
      /\ "delivery" \in seen <=> delivery[o].status # "ABSENT"
      /\ "paymentPending" \in seen => payment[o] = "PENDING"
  BY <1>1, <1>a, AtWork DEF CancelCommit, Steps, DriverSteps, known
<1>3. PICK row : requests' = [requests EXCEPT ![r] = row] /\ row.next = "idle"
  BY OnFields DEF CancelCommit, Finish, Continue
<1>4. /\ CloseOrder(o, "PERSON") /\ ReturnCoupon(o) /\ CountCancelled(o, 1)
      /\ UNCHANGED <<deducted, operator, perimees>>
  BY <1>1 DEF CancelCommit, kitchenVars
<1>5. Rewritten(o, "CANCELLED", order[o].paymentStatus, "PERSON", order[o].consumed)
  BY <1>4, RowWrites DEF CloseOrder
<1>6. /\ \A q \in Orders \ {o} : payment'[q] = payment[q]
      /\ \/ payment'[o] = payment[o]
         \/ payment[o] = "PENDING" /\ payment'[o] = "FAILED"
  BY <1>1, <1>a, <1>2, PaymentWrites DEF CancelCommit
<1>7. /\ \A q \in Orders \ {o} : delivery'[q] = delivery[q]
      /\ KeepsCourse(o) \/ delivery'[o].status = "FAILED"
      /\ delivery'[o].status \notin DELIVERY_ACTIVE
      /\ SameCrew
  <2>1. delivery \in [Orders -> DeliveryRows] /\ driver \in [Drivers -> DriverRows]
    BY DEF TypeOK, TablesOK
  <2>2. "FAILED" \notin DELIVERY_ACTIVE /\ "ABSENT" \notin DELIVERY_ACTIVE
    BY DEF DELIVERY_ACTIVE
  <2>3. CASE "delivery" \in seen
    <3>1. /\ delivery' = [delivery EXCEPT ![o].status = "FAILED"]
          /\ driver' = [e \in Drivers |->
                          IF e = d THEN [driver[e] EXCEPT !.available = TRUE] ELSE driver[e]]
      BY <1>1, <1>a, <2>3 DEF CancelCommit
    <3>2. delivery'[o].status = "FAILED" /\ \A q \in Orders \ {o} : delivery'[q] = delivery[q]
      BY <2>1, <3>1 DEF DeliveryRows
    <3>3. SameCrew
      BY <2>1, <3>1 DEF SameCrew, DriverRows
    <3> QED BY <2>2, <3>2, <3>3
  <2>4. CASE "delivery" \notin seen
    <3>1. delivery' = delivery /\ driver' = driver
      BY <1>a, <2>4 DEF CancelCommit, fleetVars
    <3>2. delivery[o].status = "ABSENT"
      BY <1>2, <2>4
    <3> QED BY <2>2, <3>1, <3>2 DEF KeepsCourse, SameCrew
  <2> QED BY <2>3, <2>4
<1>8. KeepsStock(o)
  BY <1>4, <1>5 DEF KeepsStock, Rewritten
<1>9. Closed(o)
  BY <1>2, <1>4, <1>5, <1>6, <1>7, <1>8 DEF Closed, Rewritten
<1>10. known(row)'
  BY <1>3 DEF known, DriverSteps
<1>11. Effect(o)
  BY <1>9 DEF Effect
<1> QED BY <1>2, <1>3, <1>4, <1>5, <1>6, <1>7, <1>10, <1>11, Writes

\* The ingredients leave the stock.
LEMMA ConsumeWrites ==
  ASSUME TypeOK, SInv, NEW r \in Requests, ConsumeWrite(r)
  PROVE  Stepped
<1>1. PICK o \in Orders : o = requests[r].order
  BY AtOrder DEF ConsumeWrite, At, TypeOK, DriverSteps
<1>2. /\ requests[r].next = "consumeWrite" /\ lone(r) /\ exists(o) /\ ~ order[o].consumed
  BY <1>1, AtWork DEF ConsumeWrite, Steps, DriverSteps, known
<1>3. PICK row : requests' = [requests EXCEPT ![r] = row] /\ Back(o, row)
  BY <1>1, ReturnsTo DEF ConsumeWrite
<1>4. /\ order' = [order EXCEPT ![o].consumed = TRUE]
      /\ deducted' = [deducted EXCEPT ![o] = @ + 1]
      /\ UNCHANGED <<payment, coupon, profile, delivery, driver, operator, perimees>>
  BY <1>1 DEF ConsumeWrite, moneyVars, ledgerVars, fleetVars
<1>5. Rewritten(o, order[o].status, order[o].paymentStatus, order[o].reason, TRUE)
  BY <1>4, RowWrites
<1>6. deducted'[o] = deducted[o] + 1 /\ \A q \in Orders \ {o} : deducted'[q] = deducted[q]
  BY <1>4 DEF TypeOK, TablesOK
<1>7. Effect(o) /\ SameCrew
  BY <1>2, <1>4, <1>5, <1>6 DEF Effect, Deducted, Rewritten, KeepsStatus, KeepsMoney, KeepsCourse,
                                SameLedgers, SameCrew
<1>8. exists(o)'
  BY <1>2, <1>5 DEF Rewritten, exists
<1>9. known(row)'
  BY <1>3, <1>8, KnownBackAfter
<1> QED BY <1>2, <1>3, <1>4, <1>5, <1>6, <1>7, <1>9, Writes

\* The operator's page is open: the payment says so, its copy on the order will.
LEMMA InitiateWrites ==
  ASSUME TypeOK, SInv, NEW r \in Requests, InitiateWrite(r)
  PROVE  Stepped
<1>1. PICK o \in Orders : o = requests[r].order
  BY AtOrder DEF InitiateWrite, At, TypeOK, DriverSteps
<1>2. /\ requests[r].next = "initiateWrite" /\ lone(r) /\ exists(o)
      /\ onlineToSettle(order[o].shape) /\ order[o].paymentStatus # "PAID"
  BY <1>1, AtWork DEF InitiateWrite, Steps, DriverSteps, known
<1>3. PICK row : row = On("initiateCopy", o)
  OBVIOUS
<1>4. row.next = "initiateCopy" /\ row.order = o
  BY <1>3, OnFields
<1>5. /\ requests' = [requests EXCEPT ![r] = row]
      /\ payment' = [payment EXCEPT ![o] = "PROCESSING"]
      /\ order' = order
      /\ UNCHANGED <<coupon, profile, delivery, driver, deducted, operator, perimees>>
  BY <1>1, <1>3 DEF InitiateWrite, Continue, orderVars, ledgerVars, fleetVars, kitchenVars
<1>6. Rewritten(o, order[o].status, order[o].paymentStatus, order[o].reason, order[o].consumed)
  BY <1>5, RowWrites
<1>7. payment'[o] = "PROCESSING" /\ \A q \in Orders \ {o} : payment'[q] = payment[q]
  BY <1>5, PaymentWrites
<1>8. pendingCopy(o)'
  <2>1. requests'[r] = row
    BY <1>5 DEF TypeOK, RequestsOK
  <2> QED BY <1>4, <2>1 DEF pendingCopy
<1>9. Effect(o) /\ SameCrew
  BY <1>2, <1>5, <1>7, <1>8 DEF Effect, Billed, KeepsStatus, KeepsStock, KeepsCourse, SameCrew
<1>10. known(row)'
  <2>1. exists(o)' /\ onlineToSettle(order'[o].shape)
    BY <1>2, <1>5 DEF exists
  <2> QED BY <1>4, <1>7, <2>1 DEF known, DriverSteps
<1> QED BY <1>2, <1>5, <1>6, <1>7, <1>9, <1>10, Writes

\* The copy on the order follows, in a write of its own.
LEMMA CopyWrites ==
  ASSUME TypeOK, SInv, NEW r \in Requests, InitiateCopy(r)
  PROVE  Stepped
<1>1. PICK o \in Orders : o = requests[r].order
  BY AtOrder DEF InitiateCopy, At, TypeOK, DriverSteps
<1>2. /\ requests[r].next = "initiateCopy" /\ lone(r) /\ exists(o)
      /\ onlineToSettle(order[o].shape) /\ payment[o] = "PROCESSING"
  BY <1>1, AtWork DEF InitiateCopy, Steps, DriverSteps, known
<1>3. /\ requests' = [requests EXCEPT ![r] = Idle]
      /\ order' = [order EXCEPT ![o].paymentStatus = "PROCESSING"]
      /\ UNCHANGED <<payment, coupon, profile, delivery, driver, deducted, operator, perimees>>
  BY <1>1 DEF InitiateCopy, Finish, Continue, moneyVars, ledgerVars, fleetVars, kitchenVars
<1>4. Rewritten(o, order[o].status, "PROCESSING", order[o].reason, order[o].consumed)
  BY <1>3, RowWrites
<1>5. \A p \in Requests : requests'[p].next = "idle"
  BY <1>2, <1>3 DEF TypeOK, RequestsOK, lone, Idle
<1>6. Alone' /\ Overdue' /\ StillTrue'
  <2>1. Alone' /\ Overdue'
    BY <1>2, <1>3, <1>5 DEF Alone, Overdue, lone
  <2>2. StillTrue'
    BY <1>5 DEF StillTrue, known, DriverSteps
  <2> QED BY <2>1, <2>2
<1>7. CopyComes
  <2> SUFFICES ASSUME NEW q \in Orders, pendingCopy(q)
               PROVE  order'[q].paymentStatus = payment'[q]
    BY DEF CopyComes
  <2>1. q = o
    BY <1>1, <1>2 DEF pendingCopy, lone
  <2> QED BY <1>2, <1>3, <1>4, <2>1 DEF Rewritten
<1>8. Effect(o) /\ SameCrew
  BY <1>2, <1>3, <1>4 DEF Effect, Billed, Both, Rewritten, KeepsStatus, KeepsStock, KeepsCourse, SameCrew
<1>9. \A q \in Orders \ {o} : Same(q)
  BY <1>3, <1>4 DEF Rewritten, Same, KeepsStatus, KeepsMoney, KeepsStock, KeepsCourse
<1>10. ShapesKept /\ OperatorKnows
  BY <1>3, <1>4 DEF Rewritten, OperatorKnows
<1> QED BY <1>6, <1>7, <1>8, <1>9, <1>10 DEF Stepped, Summary, OneOrderMoves

\* A collected payment settles its order, or revives it.
LEMMA ConfirmWrites ==
  ASSUME TypeOK, SInv, NEW r \in Requests, ConfirmCommit(r)
  PROVE  Stepped
<1>1. PICK o \in Orders : o = requests[r].order
  BY AtOrder DEF ConfirmCommit, At, TypeOK, DriverSteps
<1>2. PICK seen : seen = requests[r].seen
  OBVIOUS
<1>3. /\ requests[r].next = "confirmCommit" /\ lone(r) /\ exists(o)
      /\ "revivable" \in seen =>
           order[o].status = "CANCELLED" /\ cancelledForNonPayment(order[o].reason)
  BY <1>1, <1>2, AtWork DEF ConfirmCommit, Steps, DriverSteps, known
<1>4. PICK row : requests' = [requests EXCEPT ![r] = row] /\ Back(o, row)
  <2>1. CASE Return(r)
    BY <1>1, <2>1, ReturnsTo
  <2>2. CASE Continue(r, [requests[r] EXCEPT !.next = "announce", !.seen = {}])
    <3>1. PICK row : row = [requests[r] EXCEPT !.next = "announce", !.seen = {}]
      OBVIOUS
    <3>2. row.next = "announce" /\ row.order = o
      BY <1>1, <3>1, SameRow
    <3> QED BY <2>2, <3>1, <3>2 DEF Back, Continue
  <2> QED BY <2>1, <2>2 DEF ConfirmCommit
<1>5. /\ payment' = [payment EXCEPT ![o] = "PAID"]
      /\ UNCHANGED <<delivery, driver, deducted, operator, perimees>>
  BY <1>1 DEF ConfirmCommit, fleetVars, kitchenVars
<1>6. payment'[o] = "PAID" /\ \A q \in Orders \ {o} : payment'[q] = payment[q]
  BY <1>5, PaymentWrites
<1>7. CASE "revivable" \in seen
  <2>1. Retablir(o)
    BY <1>1, <1>2, <1>7 DEF ConfirmCommit
  <2>2. Rewritten(o, "PENDING", "PAID", "NONE", order[o].consumed)
    BY <2>1, RowWrites DEF Retablir
  <2>3. Effect(o) /\ SameCrew
    BY <1>3, <1>5, <1>6, <1>7, <2>1, <2>2
       DEF Retablir, Effect, Revived, Rewritten, KeepsStock, KeepsCourse, SameCrew
  <2>4. exists(o)'
    BY <2>2 DEF Rewritten, exists
  <2>5. known(row)'
    BY <1>4, <2>4, KnownBackAfter
  <2> QED BY <1>3, <1>4, <1>5, <1>6, <2>2, <2>3, <2>5, Writes
<1>8. CASE "revivable" \notin seen
  <2>1. order' = [order EXCEPT ![o].paymentStatus = "PAID"] /\ UNCHANGED <<coupon, profile>>
    BY <1>1, <1>2, <1>8 DEF ConfirmCommit, ledgerVars
  <2>2. Rewritten(o, order[o].status, "PAID", order[o].reason, order[o].consumed)
    BY <2>1, RowWrites
  <2>3. Effect(o) /\ SameCrew
    BY <1>3, <1>5, <1>6, <2>1, <2>2
       DEF Effect, Billed, Both, Rewritten, KeepsStatus, KeepsStock, KeepsCourse, SameCrew
  <2>4. exists(o)'
    BY <1>3, <2>2 DEF Rewritten, exists
  <2>5. known(row)'
    BY <1>4, <2>4, KnownBackAfter
  <2> QED BY <1>3, <1>4, <1>5, <1>6, <2>2, <2>3, <2>5, Writes
<1> QED BY <1>7, <1>8

\* The kitchen is told.
LEMMA AnnounceWrites ==
  ASSUME TypeOK, SInv, NEW r \in Requests, Announce(r)
  PROVE  Stepped
<1>1. PICK o : o = requests[r].order
  OBVIOUS
<1>2. requests[r].next = "announce" /\ lone(r) /\ exists(o)
  BY <1>1, AtWork DEF Announce, Steps, DriverSteps
<1>3. PICK row : requests' = [requests EXCEPT ![r] = row] /\ Back(o, row)
  BY <1>1, ReturnsTo DEF Announce
<1>4. UNCHANGED <<order, payment, delivery, driver, deducted, coupon, profile, operator, perimees>>
  BY DEF Announce, orderVars, moneyVars, ledgerVars, fleetVars
<1>5. known(row)
  BY <1>2, <1>3, KnownBack
<1> QED BY <1>2, <1>3, <1>4, <1>5, Reads DEF OperatorKnows

\* A payment fails.
LEMMA FailWrites ==
  ASSUME TypeOK, SInv, NEW r \in Requests, FailCommit(r)
  PROVE  Stepped
<1>1. PICK o \in Orders : o = requests[r].order
  BY AtOrder DEF FailCommit, At, TypeOK, DriverSteps
<1>2. /\ requests[r].next = "failCommit" /\ lone(r) /\ exists(o)
      /\ payment[o] # "PAID" \/ "markFailed" \in Ops
  BY <1>1, AtWork DEF FailCommit, Steps, DriverSteps, known
<1>3. PICK row : requests' = [requests EXCEPT ![r] = row] /\ Back(o, row)
  BY <1>1, ReturnsTo DEF FailCommit
<1>4. /\ payment' = [payment EXCEPT ![o] = "FAILED"]
      /\ order' = [order EXCEPT ![o].paymentStatus = "FAILED"]
      /\ UNCHANGED <<coupon, profile, delivery, driver, deducted, operator, perimees>>
  BY <1>1 DEF FailCommit, ledgerVars, fleetVars, kitchenVars
<1>5. Rewritten(o, order[o].status, "FAILED", order[o].reason, order[o].consumed)
  BY <1>4, RowWrites
<1>6. payment'[o] = "FAILED" /\ \A q \in Orders \ {o} : payment'[q] = payment[q]
  BY <1>4, PaymentWrites
<1>7. Effect(o) /\ SameCrew
  BY <1>2, <1>4, <1>5, <1>6
     DEF Effect, Billed, Both, Rewritten, KeepsStatus, KeepsStock, KeepsCourse, SameCrew
<1>8. exists(o)'
  BY <1>2, <1>5 DEF Rewritten, exists
<1>9. known(row)'
  BY <1>3, <1>8, KnownBackAfter
<1> QED BY <1>2, <1>3, <1>4, <1>5, <1>6, <1>7, <1>9, Writes

\* A payment is given back.
LEMMA RefundWrites ==
  ASSUME TypeOK, SInv, NEW r \in Requests, RefundCommit(r)
  PROVE  Stepped
<1>1. PICK o \in Orders : o = requests[r].order
  BY AtOrder DEF RefundCommit, At, TypeOK, DriverSteps
<1>2. /\ requests[r].next = "refundCommit" /\ lone(r) /\ exists(o)
      /\ payment[o] = "PAID" /\ "refund" \in Ops
  BY <1>1, AtWork DEF RefundCommit, Steps, DriverSteps, known
<1>3. PICK row : requests' = [requests EXCEPT ![r] = row] /\ row.next = "idle"
  BY OnFields DEF RefundCommit, Finish, Continue
<1>4. /\ payment' = [payment EXCEPT ![o] = "REFUNDED"]
      /\ order' = [order EXCEPT ![o].paymentStatus = "REFUNDED"]
      /\ profile' = IF account(o) THEN [profile EXCEPT !.spent = @ - 1] ELSE profile
      /\ UNCHANGED <<coupon, delivery, driver, deducted, operator, perimees>>
  BY <1>1 DEF RefundCommit, fleetVars, kitchenVars
<1>5. Rewritten(o, order[o].status, "REFUNDED", order[o].reason, order[o].consumed)
  BY <1>4, RowWrites
<1>6. payment'[o] = "REFUNDED" /\ \A q \in Orders \ {o} : payment'[q] = payment[q]
  BY <1>4, PaymentWrites
<1>7. Effect(o) /\ SameCrew
  BY <1>2, <1>4, <1>5, <1>6
     DEF Effect, Billed, Both, Rewritten, KeepsStatus, KeepsStock, KeepsCourse, SameCrew
<1>8. known(row)'
  BY <1>3 DEF known, DriverSteps
<1> QED BY <1>2, <1>3, <1>4, <1>5, <1>6, <1>7, <1>8, Writes

\* The customer closes the payment page: the payment fails, and its order closes
\* when it was still waiting.
LEMMA AbandonWrites ==
  ASSUME TypeOK, SInv, NEW r \in Requests, AbandonCommit(r)
  PROVE  Stepped
<1>1. PICK o \in Orders : o = requests[r].order
  BY AtOrder DEF AbandonCommit, At, TypeOK, DriverSteps
<1>2. PICK seen : seen = requests[r].seen
  OBVIOUS
<1>3. /\ requests[r].next = "abandonCommit" /\ lone(r) /\ exists(o)
      /\ payment[o] \in {"PENDING", "PROCESSING"}
      /\ "pending" \in seen => order[o].status = "PENDING"
  BY <1>1, <1>2, AtWork DEF AbandonCommit, Steps, DriverSteps, known
<1>4. PICK row : requests' = [requests EXCEPT ![r] = row] /\ row.next = "idle"
  BY OnFields DEF AbandonCommit, Finish, Continue
<1>5. /\ payment' = [payment EXCEPT ![o] = "FAILED"]
      /\ UNCHANGED <<delivery, driver, deducted, operator, perimees>>
  BY <1>1 DEF AbandonCommit, fleetVars, kitchenVars
<1>6. payment'[o] = "FAILED" /\ \A q \in Orders \ {o} : payment'[q] = payment[q]
  BY <1>5, PaymentWrites
<1>7. known(row)'
  BY <1>4 DEF known, DriverSteps
<1>8. CASE "pending" \in seen
  <2>1. /\ order' = [order EXCEPT ![o].status = "CANCELLED", ![o].reason = "ABANDON",
                                  ![o].paymentStatus = "FAILED"]
        /\ ReturnCoupon(o) /\ CountCancelled(o, 1)
    BY <1>1, <1>2, <1>8 DEF AbandonCommit
  <2>2. Rewritten(o, "CANCELLED", "FAILED", "ABANDON", order[o].consumed)
    BY <2>1, RowWrites
  <2>3. order[o].status = "PENDING" /\ mayTransition("PENDING", "CANCELLED", order[o].shape.type)
    BY <1>3, <1>8 DEF mayTransition, canTransition
  <2>4. KeepsStock(o) /\ KeepsCourse(o) /\ SameCrew
    BY <1>5, <2>2 DEF Rewritten, KeepsStock, KeepsCourse, SameCrew
  <2>5. Closed(o)
    BY <1>3, <1>6, <2>1, <2>2, <2>3, <2>4 DEF Closed, Rewritten
  <2>6. Effect(o)
    BY <2>5 DEF Effect
  <2> QED BY <1>3, <1>4, <1>5, <1>6, <1>7, <2>2, <2>4, <2>6, Writes
<1>9. CASE "pending" \notin seen
  <2>1. order' = [order EXCEPT ![o].paymentStatus = "FAILED"] /\ UNCHANGED <<coupon, profile>>
    BY <1>1, <1>2, <1>9 DEF AbandonCommit, ledgerVars
  <2>2. Rewritten(o, order[o].status, "FAILED", order[o].reason, order[o].consumed)
    BY <2>1, RowWrites
  <2>3. Effect(o) /\ SameCrew
    BY <1>3, <1>5, <1>6, <2>1, <2>2
       DEF Effect, Billed, Both, Rewritten, KeepsStatus, KeepsStock, KeepsCourse, SameCrew
  <2> QED BY <1>3, <1>4, <1>5, <1>6, <1>7, <2>2, <2>3, Writes
<1> QED BY <1>8, <1>9

\* Freeing a driver, or deducing whether one is free, leaves the accounts alone.
LEMMA CrewKept ==
  ASSUME NEW crew \in [Drivers -> DriverRows], NEW d, NEW courses
  PROVE  /\ \A e \in Drivers : refreshed(d, crew, courses)[e].status = crew[e].status
         /\ \A e \in Drivers : refreshedIfAny(d, crew, courses)[e].status = crew[e].status
<1>1. PICK free : free = (activeDeliveries(courses, d) = {})
  OBVIOUS
<1>2. refreshed(d, crew, courses) = [crew EXCEPT ![d].available = free]
  BY <1>1 DEF refreshed
<1>3. \A e \in Drivers : refreshed(d, crew, courses)[e].status = crew[e].status
  BY <1>2 DEF DriverRows
<1>4. \A e \in Drivers : refreshedIfAny(d, crew, courses)[e].status = crew[e].status
  BY <1>3 DEF refreshedIfAny
<1> QED BY <1>3, <1>4

\* An order is given to a driver: only one whose account is active.
LEMMA AssignWrites ==
  ASSUME TypeOK, SInv, NEW r \in Requests, AssignCommit(r)
  PROVE  Stepped
<1>1. PICK o \in Orders : o = requests[r].order
  BY AtOrder DEF AssignCommit, At, TypeOK, DriverSteps
<1>2. PICK seen, d, previous : /\ seen = requests[r].seen /\ d = requests[r].driver
                               /\ previous = requests[r].previous
  OBVIOUS
<1>3. /\ requests[r].next = "assignCommit" /\ lone(r) /\ exists(o)
      /\ order[o].status \in assignableStatuses /\ order[o].shape.type = "DELIVERY"
      /\ "ready" \in seen <=> order[o].status = "READY"
  BY <1>1, <1>2, AtWork DEF AssignCommit, Steps, DriverSteps, known
<1>4. d \in Drivers
  BY <1>2, <1>3 DEF TypeOK, RequestsOK, wellFormed
<1>5. PICK row : requests' = [requests EXCEPT ![r] = row] /\ row.next = "idle"
  BY OnFields DEF AssignCommit, Finish, Continue
<1>6. /\ delivery' = [delivery EXCEPT ![o] = [status |-> "ASSIGNED", driver |-> d]]
      /\ driver' = refreshedIfAny(previous, [driver EXCEPT ![d].available = FALSE], delivery')
      /\ driver[d].status = "ACTIVE"
      /\ UNCHANGED <<payment, coupon, profile, deducted, operator, perimees>>
  BY <1>1, <1>2 DEF AssignCommit, assertAssignable, moneyVars, ledgerVars, kitchenVars
<1>7. /\ delivery'[o].driver = d /\ \A q \in Orders \ {o} : delivery'[q] = delivery[q]
  BY <1>6 DEF TypeOK, TablesOK
<1>8. SameCrew
  <2>1. PICK crew : crew = [driver EXCEPT ![d].available = FALSE]
    OBVIOUS
  <2>2. crew \in [Drivers -> DriverRows] /\ \A e \in Drivers : crew[e].status = driver[e].status
    BY <1>4, <2>1 DEF TypeOK, TablesOK, DriverRows
  <2>3. PICK courses : courses = delivery'
    OBVIOUS
  <2>4. driver' = refreshedIfAny(previous, crew, courses)
    BY <1>6, <2>1, <2>3
  <2> QED BY <2>2, <2>4, CrewKept DEF SameCrew
<1>9. PICK status : /\ Rewritten(o, status, order[o].paymentStatus, order[o].reason, order[o].consumed)
                    /\ status = IF order[o].status = "READY" THEN "ASSIGNED" ELSE order[o].status
  <2>1. CASE "ready" \in seen
    <3>1. order' = [order EXCEPT ![o].status = "ASSIGNED"]
      BY <1>1, <1>2, <2>1 DEF AssignCommit, WriteStatus
    <3>2. Rewritten(o, "ASSIGNED", order[o].paymentStatus, order[o].reason, order[o].consumed)
      BY <3>1, RowWrites
    <3> QED BY <1>3, <2>1, <3>2
  <2>2. CASE "ready" \notin seen
    <3>1. order' = order
      BY <1>1, <1>2, <2>2 DEF AssignCommit, orderVars
    <3>2. Rewritten(o, order[o].status, order[o].paymentStatus, order[o].reason, order[o].consumed)
      BY <3>1, RowWrites
    <3> QED BY <1>3, <2>2, <3>2
  <2> QED BY <2>1, <2>2
<1>10. Carried(o)
  BY <1>3, <1>4, <1>6, <1>7, <1>9 DEF Carried, Rewritten, KeepsMoney, KeepsStock, SameLedgers
<1>11. Effect(o)
  BY <1>10 DEF Effect
<1>12. known(row)'
  BY <1>5 DEF known, DriverSteps
<1> QED BY <1>3, <1>5, <1>6, <1>7, <1>8, <1>9, <1>11, <1>12, Writes

\* A delivery moves; what it means for the order comes in a step of its own.
LEMMA MoveWrites ==
  ASSUME TypeOK, SInv, NEW r \in Requests, MoveCommit(r)
  PROVE  Stepped
<1>1. PICK o \in Orders : o = requests[r].order
  BY AtOrder DEF MoveCommit, At, TypeOK, DriverSteps
<1>2. PICK target, d : target = requests[r].target /\ d = requests[r].driver
  OBVIOUS
<1>3. /\ requests[r].next = "moveCommit" /\ lone(r) /\ exists(o)
      /\ target \in DELIVERY_ACTIVE => delivery[o].status \in DELIVERY_ACTIVE
  BY <1>1, <1>2, AtWork DEF MoveCommit, Steps, DriverSteps, known
<1>4. PICK courses : /\ courses = delivery' /\ courses = [delivery EXCEPT ![o].status = target]
                     /\ driver' = refreshedIfAny(d, driver, courses)
  BY <1>1, <1>2 DEF MoveCommit
<1>5. UNCHANGED <<order, payment, coupon, profile, deducted, operator, perimees>>
  BY DEF MoveCommit, orderVars, moneyVars, ledgerVars, kitchenVars
<1>6. /\ delivery'[o].status = target /\ delivery'[o].driver = delivery[o].driver
      /\ \A q \in Orders \ {o} : delivery'[q] = delivery[q]
  BY <1>4 DEF TypeOK, TablesOK, DeliveryRows
<1>7. SameCrew
  BY <1>4, CrewKept DEF SameCrew, TypeOK, TablesOK
<1>8. PICK row : /\ requests' = [requests EXCEPT ![r] = row]
                 /\ \/ Back(o, row)
                    \/ /\ row.next = "systemRead" /\ row.order = o
                       /\ row.target \in {"OUT_FOR_DELIVERY", "DELIVERED"}
                       /\ row.target = "DELIVERED" => target = "DELIVERED"
  <2>1. CASE Return(r)
    BY <1>1, <2>1, ReturnsTo
  <2>2. CASE target = "PICKED_UP" /\ Continue(r, Towards("systemRead", o, "OUT_FOR_DELIVERY"))
    <3>1. PICK row : row = Towards("systemRead", o, "OUT_FOR_DELIVERY")
      OBVIOUS
    <3>2. row.next = "systemRead" /\ row.order = o /\ row.target = "OUT_FOR_DELIVERY"
      BY <3>1 DEF Towards, On, Idle
    <3> QED BY <2>2, <3>1, <3>2 DEF Continue
  <2>3. CASE target = "DELIVERED" /\ Continue(r, Towards("systemRead", o, "DELIVERED"))
    <3>1. PICK row : row = Towards("systemRead", o, "DELIVERED")
      OBVIOUS
    <3>2. row.next = "systemRead" /\ row.order = o /\ row.target = "DELIVERED"
      BY <3>1 DEF Towards, On, Idle
    <3> QED BY <2>3, <3>1, <3>2 DEF Continue
  <2> QED BY <1>1, <1>2, <2>1, <2>2, <2>3 DEF MoveCommit
<1>9. Rewritten(o, order[o].status, order[o].paymentStatus, order[o].reason, order[o].consumed)
  BY <1>5, RowWrites
<1>10. Carried(o)
  BY <1>3, <1>5, <1>6 DEF Carried, KeepsStatus, KeepsMoney, KeepsStock, SameLedgers
<1>11. Effect(o)
  BY <1>10 DEF Effect
<1>12. exists(o)'
  BY <1>3, <1>5 DEF exists
<1>13. known(row)'
  <2>1. CASE Back(o, row)
    BY <1>12, <2>1, KnownBackAfter
  <2>2. CASE ~ Back(o, row)
    BY <1>6, <1>8, <1>12, <2>2 DEF known, DriverSteps
  <2> QED BY <2>1, <2>2
<1> QED BY <1>3, <1>5, <1>6, <1>7, <1>8, <1>9, <1>11, <1>13, Writes

\* A driver declines: the course stays, without a driver.
LEMMA DeclineWrites ==
  ASSUME TypeOK, SInv, NEW r \in Requests, DeclineCommit(r)
  PROVE  Stepped
<1>1. PICK o \in Orders : o = requests[r].order
  BY AtOrder DEF DeclineCommit, At, TypeOK, DriverSteps
<1>2. PICK d : d = requests[r].driver
  OBVIOUS
<1>3. requests[r].next = "declineCommit" /\ lone(r) /\ exists(o)
  BY <1>1, AtWork DEF DeclineCommit, Steps, DriverSteps
<1>4. PICK courses : /\ courses = delivery' /\ courses = [delivery EXCEPT ![o].driver = NoDriver]
                     /\ driver' = refreshed(d, driver, courses)
  BY <1>1, <1>2 DEF DeclineCommit
<1>5. UNCHANGED <<payment, coupon, profile, deducted, operator, perimees>>
  BY DEF DeclineCommit, moneyVars, ledgerVars, kitchenVars
<1>6. /\ delivery'[o].driver = NoDriver /\ delivery'[o].status = delivery[o].status
      /\ \A q \in Orders \ {o} : delivery'[q] = delivery[q]
  BY <1>4 DEF TypeOK, TablesOK, DeliveryRows
<1>7. SameCrew
  BY <1>4, CrewKept DEF SameCrew, TypeOK, TablesOK
<1>8. PICK row : requests' = [requests EXCEPT ![r] = row] /\ row.next = "idle"
  BY OnFields DEF DeclineCommit, Finish, Continue
<1>9. PICK status : /\ Rewritten(o, status, order[o].paymentStatus, order[o].reason, order[o].consumed)
                    /\ status = IF order[o].status = "ASSIGNED" THEN "READY" ELSE order[o].status
  <2>1. CASE order[o].status = "ASSIGNED"
    <3>1. order' = [order EXCEPT ![o].status = "READY"]
      BY <1>1, <2>1 DEF DeclineCommit, WriteStatus
    <3>2. Rewritten(o, "READY", order[o].paymentStatus, order[o].reason, order[o].consumed)
      BY <3>1, RowWrites
    <3> QED BY <2>1, <3>2
  <2>2. CASE order[o].status # "ASSIGNED"
    <3>1. order' = order
      BY <1>1, <2>2 DEF DeclineCommit, orderVars
    <3>2. Rewritten(o, order[o].status, order[o].paymentStatus, order[o].reason, order[o].consumed)
      BY <3>1, RowWrites
    <3> QED BY <2>2, <3>2
  <2> QED BY <2>1, <2>2
<1>10. Carried(o)
  BY <1>3, <1>5, <1>6, <1>9 DEF Carried, Rewritten, KeepsMoney, KeepsStock, SameLedgers
<1>11. Effect(o)
  BY <1>10 DEF Effect
<1>12. known(row)'
  BY <1>8 DEF known, DriverSteps
<1> QED BY <1>3, <1>5, <1>6, <1>7, <1>8, <1>9, <1>11, <1>12, Writes

\* The drivers' own rows: a driver is suspended only with no course under way.
LEMMA DriverWrites ==
  ASSUME TypeOK, SInv, NEW r \in Requests, UpdateAvailabilityCommit(r) \/ SetStatusCommit(r)
  PROVE  Stepped
<1>1. PICK row : requests' = [requests EXCEPT ![r] = row] /\ row.next = "idle"
  BY OnFields DEF UpdateAvailabilityCommit, SetStatusCommit, Finish, Continue
<1>2. UNCHANGED <<order, payment, delivery, deducted, coupon, profile, operator, perimees>>
  BY DEF UpdateAvailabilityCommit, SetStatusCommit, orderVars, moneyVars, ledgerVars, kitchenVars
<1>3. PICK d, target : d = requests[r].driver /\ target = requests[r].target
  OBVIOUS
<1>4. CASE UpdateAvailabilityCommit(r)
  <2>1. requests[r].next = "availabilityCommit" /\ lone(r)
    BY <1>4, LoneIsAlone DEF UpdateAvailabilityCommit, At, SInv
  <2>2. \A e \in Drivers : driver'[e].status = driver[e].status
    <3>1. PICK online, available :
            driver' = [driver EXCEPT ![d].online = online, ![d].available = available]
      BY <1>3, <1>4 DEF UpdateAvailabilityCommit
    <3> QED BY <3>1 DEF TypeOK, TablesOK, DriverRows
  <2>3. known(row)
    BY <1>1, KnownIdle
  <2> QED BY <1>1, <1>2, <2>1, <2>2, <2>3, Reads DEF OperatorKnows
<1>5. CASE SetStatusCommit(r)
  <2>1. requests[r].next = "driverStatusCommit" /\ lone(r) /\ known(requests[r])
    BY <1>5, LoneIsAlone DEF SetStatusCommit, At, SInv, StillTrue
  <2>2. target = "SUSPENDED" => activeDeliveries(delivery, d) = {}
    BY <1>3, <2>1 DEF known
  <2>3. PICK online, available :
          driver' = [driver EXCEPT ![d] = [online |-> online, available |-> available,
                                           status |-> target]]
    BY <1>3, <1>5 DEF SetStatusCommit
  <2>4. \A e \in Drivers : driver'[e].status = "SUSPENDED" =>
          driver[e].status = "SUSPENDED" \/ activeDeliveries(delivery, e) = {}
    BY <2>2, <2>3 DEF TypeOK, TablesOK
  <2>5. known(row)'
    BY <1>1 DEF known, DriverSteps
  <2>6. Alone' /\ Overdue' /\ StillTrue' /\ CopyComes
    BY <1>1, <1>2, <2>1, <2>5, OneSlot
  <2>7. Still /\ ShapesKept /\ OperatorKnows
    BY <1>2, <2>4 DEF Still, ShapesKept, OperatorKnows, Same, KeepsStatus, KeepsMoney, KeepsStock,
                      KeepsCourse, SameLedgers
  <2> QED BY <2>6, <2>7 DEF Stepped, Summary
<1> QED BY <1>4, <1>5

(***************************************************************************)
(* Steps that are nobody's request                                         *)
(***************************************************************************)
\* A step that leaves the requests alone, when nobody is at work.
LEMMA OutsideStep ==
  ASSUME UNCHANGED requests, \A r \in Requests : requests[r].next = "idle"
  PROVE  Alone' /\ StillTrue' /\ CopyComes
<1>1. Alone' /\ CopyComes
  BY DEF Alone, CopyComes, pendingCopy
<1>2. StillTrue'
  BY DEF StillTrue, known, DriverSteps
<1> QED BY <1>1, <1>2

\* The cron job selects the orders whose deadline has passed, then closes them one
\* by one: nothing has come between.
LEMMA DeadlineWrites ==
  ASSUME TypeOK, SInv, OneByOne, ExpireSelect \/ \E o \in Orders : ExpireOne(o)
  PROVE  Stepped
<1> USE DEF SInv
<1>1. CASE ExpireSelect
  <2>1. /\ Busy < MaxInFlight /\ perimees' = {o \in Orders : expired(o)} /\ "expire" \in Ops
        /\ UNCHANGED <<order, payment, delivery, driver, deducted, coupon, profile, operator,
                       requests>>
    BY <1>1 DEF ExpireSelect, orderVars, moneyVars, ledgerVars, fleetVars, kitchenVars
  <2>2. \A r \in Requests : requests[r].next = "idle"
    BY <2>1, NobodyAtWork
  <2>3. Overdue'
    BY <2>1 DEF Overdue, expired
  <2>4. Alone' /\ StillTrue' /\ CopyComes
    BY <2>1, <2>2, OutsideStep
  <2>5. Still /\ ShapesKept /\ OperatorKnows
    BY <2>1, NoTable DEF OperatorKnows
  <2> QED BY <2>3, <2>4, <2>5 DEF Stepped, Summary
<1>2. ASSUME NEW o \in Orders, ExpireOne(o) PROVE Stepped
  <2>1. /\ o \in perimees /\ perimees' = perimees \ {o}
        /\ order' = [order EXCEPT ![o].status = "CANCELLED", ![o].reason = "EXPIRY"]
        /\ ReturnCoupon(o) /\ CountCancelled(o, 1)
        /\ UNCHANGED <<delivery, driver, deducted, operator, requests>>
    BY <1>2 DEF ExpireOne, CloseOrder, fleetVars, kitchenVars
  <2>2. /\ order[o].status \in {"PENDING", "CONFIRMED"} /\ "expire" \in Ops
        /\ isUnpaidOnline(order[o].shape, order[o].paymentStatus)
    BY <2>1 DEF Overdue
  <2>3. Rewritten(o, "CANCELLED", order[o].paymentStatus, "EXPIRY", order[o].consumed)
    BY <2>1, RowWrites
  <2>4. /\ \A q \in Orders \ {o} : payment'[q] = payment[q]
        /\ \/ payment'[o] = payment[o]
           \/ payment[o] = "PENDING" /\ payment'[o] = "FAILED"
    BY <1>2, PaymentWrites DEF ExpireOne
  <2>5. mayTransition(order[o].status, "CANCELLED", order[o].shape.type)
    BY <2>2 DEF mayTransition, canTransition
  <2>6. KeepsStock(o) /\ KeepsCourse(o) /\ SameCrew
    BY <2>1, <2>3 DEF Rewritten, KeepsStock, KeepsCourse, SameCrew
  <2>7. Closed(o)
    BY <2>1, <2>2, <2>3, <2>4, <2>5, <2>6 DEF Closed, Rewritten, unseen
  <2>8. \A r \in Requests : requests[r].next = "idle"
    BY <2>1 DEF Alone
  <2>9. Alone' /\ StillTrue' /\ CopyComes
    BY <2>1, <2>8, OutsideStep
  <2>10. Overdue'
    <3> SUFFICES ASSUME NEW q \in perimees, q # o
                 PROVE  /\ order'[q].status \in {"PENDING", "CONFIRMED"}
                        /\ isUnpaidOnline(order'[q].shape, order'[q].paymentStatus)
      BY <2>1, <2>2 DEF Overdue
    <3>1. order'[q] = order[q]
      BY <2>3 DEF Rewritten, TypeOK, TablesOK
    <3> QED BY <3>1 DEF Overdue
  <2>11. \A q \in Orders \ {o} : Same(q)
    BY <2>1, <2>3, <2>4 DEF Rewritten, Same, KeepsStatus, KeepsMoney, KeepsStock, KeepsCourse
  <2>12. ShapesKept /\ OperatorKnows
    BY <2>1, <2>3 DEF Rewritten, OperatorKnows
  <2> QED BY <2>6, <2>7, <2>9, <2>10, <2>11, <2>12 DEF Stepped, Summary, OneOrderMoves, Effect
<1> QED BY <1>1, <1>2

\* What is relied on does not depend on the age of an order.
LEMMA KnownOlder ==
  ASSUME NEW row, known(row), UNCHANGED <<payment, delivery>>,
         row.next \in DriverSteps \union {"idle"} \/ row.order \in Orders,
         \A q \in Orders :
           /\ order'[q].shape = order[q].shape /\ order'[q].status = order[q].status
           /\ order'[q].paymentStatus = order[q].paymentStatus
           /\ order'[q].consumed = order[q].consumed /\ order'[q].reason = order[q].reason
  PROVE  known(row)'
<1>1. CASE row.next \in DriverSteps \union {"idle"}
  BY <1>1 DEF known, DriverSteps, activeDeliveries
<1>2. CASE row.next \notin DriverSteps \union {"idle"}
  <2>1. row.order \in Orders
    BY <1>2
  <2>2. /\ exists(row.order)' = exists(row.order) /\ account(row.order)' = account(row.order)
        /\ order'[row.order].shape = order[row.order].shape
        /\ order'[row.order].status = order[row.order].status
        /\ order'[row.order].paymentStatus = order[row.order].paymentStatus
        /\ order'[row.order].consumed = order[row.order].consumed
        /\ order'[row.order].reason = order[row.order].reason
    BY <2>1 DEF exists, account
  <2>3. CASE row.next \in {"createCommit", "cancelCommit", "statusCommit", "assignCommit"}
    BY <2>2, <2>3 DEF known, DriverSteps
  <2>4. CASE row.next \in {"consumeWrite", "systemRead", "systemCommit", "moveCommit"}
    BY <2>2, <2>4 DEF known, DriverSteps
  <2>5. CASE row.next \notin {"createCommit", "cancelCommit", "statusCommit", "assignCommit",
                              "consumeWrite", "systemRead", "systemCommit", "moveCommit"}
    BY <1>2, <2>2, <2>5 DEF known, DriverSteps
  <2> QED BY <2>3, <2>4, <2>5
<1> QED BY <1>1, <1>2

\* Time passes, the operator decides, silent drivers are signed off: no request
\* relies on any of these.
LEMMA WorldWrites ==
  ASSUME TypeOK, SInv,
         \/ \E o \in Orders : Age(o)
         \/ \E o \in Orders, outcome \in Outcomes : OperatorDecides(o, outcome)
         \/ \E stale \in SUBSET Drivers : ReleaseStaleDrivers(stale)
  PROVE  Stepped
<1> USE DEF SInv
<1>1. ASSUME NEW o \in Orders, Age(o) PROVE Stepped
  <2>1. PICK age : order' = [order EXCEPT ![o].age = age]
    BY <1>1 DEF Age
  <2>2. UNCHANGED <<payment, delivery, driver, deducted, coupon, profile, operator, perimees, requests>>
    BY <1>1 DEF Age, moneyVars, ledgerVars, fleetVars, kitchenVars
  <2>3. \A q \in Orders :
          /\ order'[q].shape = order[q].shape /\ order'[q].status = order[q].status
          /\ order'[q].paymentStatus = order[q].paymentStatus
          /\ order'[q].consumed = order[q].consumed /\ order'[q].reason = order[q].reason
    BY <2>1 DEF TypeOK, TablesOK, OrderRows
  <2>4. Alone' /\ Overdue' /\ CopyComes
    BY <2>2, <2>3 DEF Alone, Overdue, CopyComes, pendingCopy, TypeOK, TablesOK
  <2>5. StillTrue'
    <3> SUFFICES ASSUME NEW r \in Requests PROVE known(requests[r])'
      BY DEF StillTrue
    <3>1. known(requests[r])
      BY DEF StillTrue
    <3>2. PICK row : row = requests[r]
      OBVIOUS
    <3>3. row.next \in DriverSteps \union {"idle"} \/ row.order \in Orders
      BY <3>2 DEF TypeOK, RequestsOK, wellFormed
    <3>4. known(row)'
      BY <2>2, <2>3, <3>1, <3>2, <3>3, KnownOlder
    <3> QED BY <2>2, <3>2, <3>4
  <2>6. ShapesKept /\ OperatorKnows /\ Still
    BY <2>2, <2>3 DEF ShapesKept, OperatorKnows, Still, Same, KeepsStatus, KeepsMoney, KeepsStock,
                      KeepsCourse, SameLedgers
  <2> QED BY <2>4, <2>5, <2>6 DEF Stepped, Summary
<1>2. ASSUME UNCHANGED <<order, payment, delivery, deducted, coupon, profile, perimees, requests>>,
             \A d \in Drivers : driver'[d].status = driver[d].status, OperatorKnows
      PROVE  Stepped
  <2>1. Alone' /\ Overdue' /\ CopyComes
    BY <1>2 DEF Alone, Overdue, CopyComes, pendingCopy
  <2>2. StillTrue'
    <3> SUFFICES ASSUME NEW r \in Requests PROVE known(requests[r])'
      BY DEF StillTrue
    <3>1. PICK row : row = requests[r] /\ known(row)
      BY DEF StillTrue
    <3>2. known(row)'
      BY <1>2, <3>1, SameKnown
    <3> QED BY <1>2, <3>1, <3>2
  <2> QED BY <1>2, <2>1, <2>2, NoTable DEF Stepped, Summary
<1>3. ASSUME NEW o \in Orders, NEW outcome \in Outcomes, OperatorDecides(o, outcome) PROVE Stepped
  <2>1. UNCHANGED <<order, payment, delivery, driver, deducted, coupon, profile, perimees, requests>>
    BY <1>3 DEF OperatorDecides, orderVars, moneyVars, ledgerVars, fleetVars, kitchenVars
  <2>2. OperatorKnows
    <3>1. exists(o)
      BY <1>3 DEF OperatorDecides, RowsHold, notYet
    <3> QED BY <1>3, <3>1 DEF OperatorDecides, OperatorKnows, TypeOK, TablesOK
  <2> QED BY <1>2, <2>1, <2>2
<1>4. ASSUME NEW stale \in SUBSET Drivers, ReleaseStaleDrivers(stale) PROVE Stepped
  <2>1. UNCHANGED <<order, payment, delivery, deducted, coupon, profile, operator, perimees, requests>>
    BY <1>4 DEF ReleaseStaleDrivers, orderVars, moneyVars, ledgerVars, kitchenVars
  <2>2. \A d \in Drivers : driver'[d].status = driver[d].status
    BY <1>4 DEF ReleaseStaleDrivers, TypeOK, TablesOK, DriverRows
  <2> QED BY <1>2, <2>1, <2>2 DEF OperatorKnows
<1> QED BY <1>1, <1>3, <1>4

\* A request dies, or the cron job does; or nothing happens.
LEMMA CrashWrites ==
  ASSUME TypeOK, SInv, (\E r \in Requests : Abort(r)) \/ CronCrash \/ UNCHANGED vars
  PROVE  Stepped
<1> USE DEF SInv
<1>1. ASSUME NEW r \in Requests, Abort(r) PROVE Stepped
  <2>1. /\ "crash" \in Ops /\ lone(r) /\ UNCHANGED tables
        /\ requests' = [requests EXCEPT ![r] = Idle]
    BY <1>1, LoneIsAlone DEF Abort, Finish, Continue
  <2>2. known(Idle)
    BY KnownIdle DEF Idle
  <2> QED BY <2>1, <2>2, Reads, TablesApart DEF OperatorKnows
<1>2. ASSUME UNCHANGED <<order, payment, delivery, driver, deducted, coupon, profile, operator,
                         requests>>,
             perimees' \in {perimees, {}}
      PROVE  Stepped
  <2>1. Alone' /\ Overdue' /\ CopyComes
    BY <1>2 DEF Alone, Overdue, CopyComes, pendingCopy
  <2>2. StillTrue'
    <3> SUFFICES ASSUME NEW r \in Requests PROVE known(requests[r])'
      BY DEF StillTrue
    <3>1. PICK row : row = requests[r] /\ known(row)
      BY DEF StillTrue
    <3>2. known(row)'
      BY <1>2, <3>1, SameKnown
    <3> QED BY <1>2, <3>1, <3>2
  <2> QED BY <1>2, <2>1, <2>2, NoTable DEF Stepped, Summary, OperatorKnows
<1>3. CASE CronCrash
  BY <1>2, <1>3 DEF CronCrash, orderVars, moneyVars, ledgerVars, fleetVars, kitchenVars
<1>4. CASE UNCHANGED vars
  BY <1>2, <1>4 DEF vars
<1> QED BY <1>1, <1>3, <1>4

(***************************************************************************)
(* The invariant                                                           *)
(***************************************************************************)
\* A step acts on an order that is there, or puts it there.
LEMMA EffectPlaces ==
  ASSUME NEW o \in Orders, Effect(o)
  PROVE  exists(o)'
<1>1. CASE Created(o) \/ Sold(o)
  BY <1>1 DEF Created, Sold, exists
<1>2. CASE Moved(o) \/ Closed(o) \/ Revived(o)
  BY <1>2 DEF Moved, Closed, Revived, exists, mayTransition, canTransition
<1>3. CASE Billed(o) \/ Deducted(o)
  BY <1>3 DEF Billed, Deducted, exists, KeepsStatus
<1>4. CASE Carried(o)
  BY <1>4 DEF Carried, exists, KeepsStatus
<1> QED BY <1>1, <1>2, <1>3, <1>4 DEF Effect

\* Whatever a step does to an order, the payment and its copy agree on whether the
\* money is there.
LEMMA EffectKeepsMoney ==
  ASSUME NEW o \in Orders, Effect(o), keptMoney(o), notYet(o), order'[o].shape = order[o].shape
  PROVE  keptMoney(o)'
<1>1. CASE Created(o)
  BY <1>1 DEF Created, keptMoney, notYet
<1>2. CASE Sold(o)
  BY <1>2 DEF Sold, keptMoney, onlineToSettle
<1>3. CASE Moved(o)
  BY <1>3 DEF Moved, KeepsMoney, keptMoney, onlineToSettle
<1>4. CASE Closed(o)
  BY <1>4 DEF Closed, keptMoney
<1>5. CASE Revived(o)
  BY <1>5 DEF Revived, keptMoney
<1>6. CASE Billed(o)
  BY <1>6 DEF Billed, Both, keptMoney
<1>7. CASE Carried(o) \/ Deducted(o)
  BY <1>7 DEF Carried, Deducted, KeepsMoney, keptMoney
<1> QED BY <1>1, <1>2, <1>3, <1>4, <1>5, <1>6, <1>7 DEF Effect

\* The rows stay consistent.
LEMMA RowsGoOnHolding ==
  ASSUME RowsHold, Summary
  PROVE  RowsHold'
<1> SUFFICES ASSUME NEW o \in Orders
             PROVE  order'[o].shape \in Shapes /\ keptMoney(o)' /\ notYet(o)'
  BY DEF RowsHold
<1>1. order[o].shape \in Shapes /\ keptMoney(o) /\ notYet(o)
  BY DEF RowsHold
<1>2. order'[o].shape = order[o].shape /\ (~ exists(o) => operator'[o] = operator[o])
  BY DEF Summary, ShapesKept, OperatorKnows
<1>3. CASE Same(o)
  BY <1>1, <1>2, <1>3 DEF Same, KeepsStatus, KeepsMoney, KeepsCourse, keptMoney, notYet, exists
<1>4. CASE Effect(o)
  BY <1>1, <1>2, <1>4, EffectPlaces, EffectKeepsMoney DEF notYet
<1>5. Same(o) \/ Effect(o)
  BY DEF Summary, Still, OneOrderMoves
<1> QED BY <1>1, <1>2, <1>3, <1>4, <1>5

\* Every step of the system, seen as its effect.
LEMMA EveryStep ==
  ASSUME TypeOK, SInv, OneByOne, [Next]_vars
  PROVE  Stepped
<1>1. CASE OrdersNext
  <2>1. ASSUME NEW r \in Requests, NEW o \in Orders,
               \/ CreateRead(r, o) \/ CancelRead(r, o)
               \/ \E target \in OrderStatuses : UpdateStatusRead(r, o, target)
        PROVE  Stepped
    BY <2>1, OrdersRead
  <2>2. ASSUME NEW r \in Requests, NEW o \in Orders, PosCreate(r, o) PROVE Stepped
    BY <2>2, SaleWrites
  <2>3. ASSUME NEW r \in Requests,
               CreateCommit(r) \/ UpdateStatusCommit(r) \/ CancelCommit(r) \/ SystemCommit(r)
        PROVE  Stepped
    BY <2>3, CreateWrites, StatusWrites, CancelWrites, SystemWrites
  <2>4. ASSUME NEW r \in Requests, ConsumeRead(r) \/ ConsumeWrite(r) \/ SystemRead(r)
        PROVE  Stepped
    BY <2>4, OrdersGoOn, ConsumeWrites
  <2>5. ASSUME NEW o \in Orders, ExpireOne(o) \/ Age(o) PROVE Stepped
    BY <2>5, DeadlineWrites, WorldWrites
  <2>6. CASE ExpireSelect
    BY <2>6, DeadlineWrites
  <2> QED BY <1>1, <2>1, <2>2, <2>3, <2>4, <2>5, <2>6 DEF OrdersNext
<1>2. CASE PaymentsNext
  <2>1. ASSUME NEW r \in Requests, NEW o \in Orders,
               \/ InitiateRead(r, o) \/ Confirm(r, o) \/ MarkFailed(r, o)
               \/ RefundRead(r, o) \/ Abandon(r, o) \/ FindForOrder(r, o)
               \/ \E outcome \in Outcomes : OperatorCalls(r, o, outcome)
        PROVE  Stepped
    BY <2>1, PaymentsRead
  <2>2. ASSUME NEW r \in Requests,
               ConfirmRead(r) \/ ConfirmTx(r) \/ AbandonRead(r) \/ AbandonTx(r)
        PROVE  Stepped
    BY <2>2, PaymentsGoOn
  <2>3. ASSUME NEW r \in Requests, Reconcile(r) \/ Ask(r) \/ ApplyCallback(r) PROVE Stepped
    BY <2>3, OperatorGoOn
  <2>4. ASSUME NEW r \in Requests, InitiateWrite(r) \/ InitiateCopy(r) \/ ConfirmCommit(r)
        PROVE  Stepped
    BY <2>4, InitiateWrites, CopyWrites, ConfirmWrites
  <2>5. ASSUME NEW r \in Requests,
               Announce(r) \/ FailCommit(r) \/ RefundCommit(r) \/ AbandonCommit(r)
        PROVE  Stepped
    BY <2>5, AnnounceWrites, FailWrites, RefundWrites, AbandonWrites
  <2>6. ASSUME NEW o \in Orders, NEW outcome \in Outcomes, OperatorDecides(o, outcome)
        PROVE  Stepped
    BY <2>6, WorldWrites
  <2> QED BY <1>2, <2>1, <2>2, <2>3, <2>4, <2>5, <2>6 DEF PaymentsNext
<1>3. CASE DeliveriesNext
  <2>1. ASSUME NEW r \in Requests, NEW o \in Orders,
               \/ \E d \in Drivers : AssignRead(r, o, d)
               \/ \E target \in DELIVERY_ACTIVE \union DELIVERY_TERMINAL :
                    Advance(r, o, target) \/ UpdateStatusByStaff(r, o, target)
               \/ Fail(r, o) \/ Complete(r, o) \/ DeclineRead(r, o)
        PROVE  Stepped
    BY <2>1, DeliveriesRead
  <2>2. ASSUME NEW r \in Requests, NEW d \in Drivers,
               \/ \E presence \in Presences : UpdateAvailabilityRead(r, d, presence)
               \/ \E status \in AccountStatuses : SetStatusRead(r, d, status)
        PROVE  Stepped
    BY <2>2, DriversRead
  <2>3. ASSUME NEW r \in Requests, AssignFails(r) \/ CompleteRead(r) PROVE Stepped
    BY <2>3, DeliveriesGoOn
  <2>4. ASSUME NEW r \in Requests, AssignCommit(r) \/ MoveCommit(r) \/ DeclineCommit(r)
        PROVE  Stepped
    BY <2>4, AssignWrites, MoveWrites, DeclineWrites
  <2>5. ASSUME NEW r \in Requests, UpdateAvailabilityCommit(r) \/ SetStatusCommit(r)
        PROVE  Stepped
    BY <2>5, DriverWrites
  <2>6. ASSUME NEW stale \in SUBSET Drivers, ReleaseStaleDrivers(stale) PROVE Stepped
    BY <2>6, WorldWrites
  <2> QED BY <1>3, <2>1, <2>2, <2>3, <2>4, <2>5, <2>6 DEF DeliveriesNext
<1>4. CASE (\E r \in Requests : Abort(r)) \/ CronCrash \/ UNCHANGED vars
  BY <1>4, CrashWrites
<1> QED BY <1>1, <1>2, <1>3, <1>4 DEF Next

\* What a request has read is still so when it commits, however many orders,
\* drivers and calls, and whatever dies in between.
LEMMA AlwaysSInv == OneByOne => (Spec => [](TypeOK /\ SInv))
<1> SUFFICES ASSUME OneByOne PROVE Spec => [](TypeOK /\ SInv)
  OBVIOUS
<1>1. Init => SInv
  <2> SUFFICES ASSUME Init PROVE SInv
    OBVIOUS
  <2>1. \A r \in Requests : requests[r].next = "idle"
    BY DEF Init, Idle
  <2>2. Alone /\ Overdue /\ StillTrue
    BY <2>1, KnownIdle DEF Init, Alone, Overdue, StillTrue
  <2>3. RowsHold
    <3> SUFFICES ASSUME NEW o \in Orders
                 PROVE  order[o].shape \in Shapes /\ keptMoney(o) /\ notYet(o)
      BY DEF RowsHold
    <3>1. PICK shapes \in [Orders -> Shapes] : order = [q \in Orders |-> NewOrder(shapes[q])]
      BY DEF Init
    <3>2. order[o].paymentStatus = "PENDING" /\ order[o].shape = shapes[o]
      BY <3>1 DEF NewOrder
    <3>3. /\ payment[o] = "ABSENT" /\ delivery[o].status = "ABSENT"
          /\ operator[o].state = "none" /\ operator[o].said = {}
      BY DEF Init
    <3> QED BY <3>1, <3>2, <3>3 DEF keptMoney, notYet
  <2> QED BY <2>2, <2>3 DEF SInv
<1>2. TypeOK /\ SInv /\ [Next]_vars => SInv'
  BY EveryStep, RowsGoOnHolding DEF SInv, Stepped
<1> QED BY <1>1, <1>2, TypeCorrect, PTL DEF Spec

(***************************************************************************)
(* What the effects make true                                              *)
(***************************************************************************)
\* Under the invariant, every step is summed up by its effect.
LEMMA EffectOfStep ==
  ASSUME TypeOK, SInv, OneByOne, [Next]_vars
  PROVE  /\ Summary
         /\ \A o \in Orders : order'[o].shape = order[o].shape
         /\ \A o \in Orders : Same(o) \/ Effect(o)
<1>1. Summary
  BY EveryStep DEF Stepped
<1> QED BY <1>1 DEF Summary, ShapesKept, Still, OneOrderMoves

\* The status of an order after each effect.
LEMMA StatusAfter ==
  ASSUME NEW o \in Orders, Effect(o), order'[o].status # order[o].status
  PROVE  \/ mayTransition(order[o].status, order'[o].status, order[o].shape.type)
         \/ order[o].status = "ABSENT"
         \/ revived(o)
<1>1. CASE Created(o) \/ Sold(o)
  BY <1>1 DEF Created, Sold, exists
<1>2. CASE Moved(o) \/ Closed(o)
  BY <1>2 DEF Moved, Closed
<1>3. CASE Revived(o)
  BY <1>3 DEF Revived, revived, cancelledForNonPayment
<1>4. CASE Billed(o) \/ Deducted(o)
  BY <1>4 DEF Billed, Deducted, KeepsStatus
<1>5. CASE Carried(o)
  BY <1>5 DEF Carried, KeepsStatus, assignableStatuses, mayTransition, canTransition
<1> QED BY <1>1, <1>2, <1>3, <1>4, <1>5 DEF Effect

\* Served one after the other, the handlers of three services and the cron job move
\* an order along the table of order-status.ts, and nowhere else: the checks they
\* make before their transactions are enough.
THEOREM TheTableIsFollowed == OneByOne => (Spec => StatusMachine)
<1> SUFFICES ASSUME OneByOne PROVE Spec => StatusMachine
  OBVIOUS
<1>1. TypeOK /\ SInv /\ [Next]_vars =>
        \A o \in Orders : order'[o].status # order[o].status =>
          \/ mayTransition(order[o].status, order'[o].status, order[o].shape.type)
          \/ order[o].status = "ABSENT"
          \/ revived(o)
  <2> SUFFICES ASSUME TypeOK, SInv, [Next]_vars, NEW o \in Orders,
                      order'[o].status # order[o].status
               PROVE  \/ mayTransition(order[o].status, order'[o].status, order[o].shape.type)
                      \/ order[o].status = "ABSENT"
                      \/ revived(o)
    OBVIOUS
  <2> QED BY EffectOfStep, StatusAfter DEF Same, KeepsStatus
<1> QED BY <1>1, AlwaysSInv, PTL DEF Spec, StatusMachine

\* Served one after the other, an order that was delivered or cancelled stays so,
\* but for the payment that revives it.
THEOREM TerminalIsTerminal == OneByOne => (Spec => TerminalStays)
<1> SUFFICES ASSUME OneByOne PROVE Spec => TerminalStays
  OBVIOUS
<1>1. TypeOK /\ SInv /\ [Next]_vars =>
        \A o \in Orders : order[o].status \in TERMINAL_STATUSES =>
          order'[o].status = order[o].status \/ revived(o)
  <2> SUFFICES ASSUME TypeOK, SInv, [Next]_vars, NEW o \in Orders,
                      order[o].status \in TERMINAL_STATUSES,
                      order'[o].status # order[o].status
               PROVE  revived(o)
    OBVIOUS
  <2>1. \/ mayTransition(order[o].status, order'[o].status, order[o].shape.type)
        \/ order[o].status = "ABSENT"
        \/ revived(o)
    BY EffectOfStep, StatusAfter DEF Same, KeepsStatus
  <2> QED BY <2>1 DEF TERMINAL_STATUSES, mayTransition, canTransition
<1> QED BY <1>1, AlwaysSInv, PTL DEF Spec, TerminalStays

\* Served one after the other, an order a person has cancelled stays cancelled, even
\* if its money arrives; and a payment is refunded once.
THEOREM RefusalsStand == OneByOne => (Spec => RefusedStaysRefused /\ RefundOnce)
<1> SUFFICES ASSUME OneByOne PROVE Spec => RefusedStaysRefused /\ RefundOnce
  OBVIOUS
<1>1. TypeOK /\ SInv /\ [Next]_vars =>
        \A o \in Orders : order[o].status = "CANCELLED" /\ order[o].reason = "PERSON" =>
          order'[o].status = "CANCELLED"
  <2> SUFFICES ASSUME TypeOK, SInv, [Next]_vars, NEW o \in Orders,
                      order[o].status = "CANCELLED", order[o].reason = "PERSON",
                      order'[o].status # order[o].status
               PROVE  FALSE
    OBVIOUS
  <2>1. \/ mayTransition(order[o].status, order'[o].status, order[o].shape.type)
        \/ order[o].status = "ABSENT"
        \/ revived(o)
    BY EffectOfStep, StatusAfter DEF Same, KeepsStatus
  <2> QED BY <2>1 DEF revived, mayTransition, canTransition
<1>2. TypeOK /\ SInv =>
        \A r \in Requests : RefundCommit(r) => payment[requests[r].order] # "REFUNDED"
  BY DEF SInv, StillTrue, known, RefundCommit, At
<1> QED BY <1>1, <1>2, AlwaysSInv, PTL DEF Spec, RefusedStaysRefused, RefundOnce

\* Served one after the other, no step but a refund or the back office's "mark as
\* failed" undoes a collected payment: not the page closed late, not a cancellation,
\* not the deadline, not the operator changing its mind.
THEOREM CollectedStays ==
  OneByOne /\ "markFailed" \notin Ops => (Spec => CollectedUntilRefunded)
<1> SUFFICES ASSUME OneByOne, "markFailed" \notin Ops PROVE Spec => CollectedUntilRefunded
  OBVIOUS
<1>1. TypeOK /\ SInv /\ [Next]_vars =>
        \A o \in Orders : payment[o] = "PAID" => payment'[o] \in {"PAID", "REFUNDED"}
  <2> SUFFICES ASSUME TypeOK, SInv, [Next]_vars, NEW o \in Orders, payment[o] = "PAID"
               PROVE  payment'[o] \in {"PAID", "REFUNDED"}
    OBVIOUS
  <2>1. keptMoney(o) /\ exists(o)
    BY DEF SInv, RowsHold, notYet
  <2>2. CASE Same(o)
    BY <2>2 DEF Same, KeepsMoney
  <2>3. CASE Created(o) \/ Sold(o)
    BY <2>1, <2>3 DEF Created, Sold
  <2>4. CASE Moved(o) \/ Closed(o) \/ Revived(o)
    BY <2>4 DEF Moved, Closed, Revived, KeepsMoney
  <2>5. CASE Billed(o)
    BY <2>1, <2>5 DEF Billed, Both, keptMoney
  <2>6. CASE Carried(o) \/ Deducted(o)
    BY <2>6 DEF Carried, Deducted, KeepsMoney
  <2> QED BY <2>2, <2>3, <2>4, <2>5, <2>6, EffectOfStep DEF Effect
<1> QED BY <1>1, AlwaysSInv, PTL DEF Spec, CollectedUntilRefunded

(***************************************************************************)
(* The copy of the payment                                                 *)
(***************************************************************************)
\* CopyWhileOpen says nothing of an order some request is at work on.  What lasts
\* from step to step does: only the request that opens the payment leaves the copy
\* behind, and it has one step left.
CopyKept ==
  \A o \in Orders : onlineToSettle(order[o].shape) /\ live(o) /\ ~ pendingCopy(o) =>
    order[o].paymentStatus = payment[o]

\* Each effect keeps the copy, or is the first of the two writes.
LEMMA CopyGoesOn ==
  ASSUME TypeOK, SInv, OneByOne, "crash" \notin Ops, CopyKept, [Next]_vars
  PROVE  CopyKept'
<1> SUFFICES ASSUME NEW o \in Orders, onlineToSettle(order'[o].shape), live(o)', ~ pendingCopy(o)'
             PROVE  order'[o].paymentStatus = payment'[o]
  BY DEF CopyKept
<1>1. onlineToSettle(order[o].shape) /\ notYet(o)
  BY EffectOfStep DEF SInv, RowsHold
<1>2. ASSUME KeepsMoney(o), live(o) PROVE order'[o].paymentStatus = payment'[o]
  <2>1. CASE pendingCopy(o)
    BY <2>1, EffectOfStep DEF Summary, CopyComes
  <2>2. CASE ~ pendingCopy(o)
    BY <1>1, <1>2, <2>2 DEF CopyKept, KeepsMoney
  <2> QED BY <2>1, <2>2
<1>3. CASE Same(o)
  BY <1>2, <1>3 DEF Same, KeepsStatus, live
<1>4. CASE Created(o) \/ Sold(o)
  BY <1>1, <1>4 DEF Created, Sold, notYet, onlineToSettle
<1>5. CASE Moved(o)
  BY <1>1, <1>2, <1>5 DEF Moved, onlineToSettle, live, mayTransition, canTransition
<1>6. CASE Closed(o) \/ Revived(o)
  BY <1>6 DEF Closed, Revived, live
<1>7. CASE Billed(o)
  BY <1>7 DEF Billed, Both
<1>8. CASE Carried(o)
  BY <1>2, <1>8 DEF Carried, KeepsStatus, live, assignableStatuses
<1>9. CASE Deducted(o)
  BY <1>2, <1>9 DEF Deducted, KeepsStatus, live
<1> QED BY <1>3, <1>4, <1>5, <1>6, <1>7, <1>8, <1>9, EffectOfStep DEF Effect

\* Served one after the other, and without a crash between the two writes of
\* initiate, the guard on unpaid orders reads a copy that tells the truth.
THEOREM CopyTellsTheTruth ==
  OneByOne /\ "crash" \notin Ops => (Spec => []CopyWhileOpen)
<1> SUFFICES ASSUME OneByOne, "crash" \notin Ops PROVE Spec => []CopyWhileOpen
  OBVIOUS
<1>1. Init => CopyKept
  BY DEF Init, NewOrder, CopyKept, live
<1>2. TypeOK /\ SInv /\ CopyKept /\ [Next]_vars => CopyKept'
  BY CopyGoesOn
<1>3. CopyKept => CopyWhileOpen
  BY DEF CopyKept, CopyWhileOpen, quiet, pendingCopy
<1> QED BY <1>1, <1>2, <1>3, AlwaysSInv, PTL DEF Spec

(***************************************************************************)
(* Courses                                                                 *)
(***************************************************************************)
\* An order in the kitchen, or beyond, is paid: what keeps the deadline away from it.
KitchenPaid ==
  \A o \in Orders : onlineToSettle(order[o].shape) /\ order[o].status \in KitchenStatuses =>
    order[o].paymentStatus = "PAID"

\* A course under way has an order being prepared or carried, and no suspended driver.
CourseOpen ==
  \A o \in Orders : delivery[o].status \in DELIVERY_ACTIVE =>
    /\ order[o].status \in assignableStatuses
    /\ delivery[o].driver # NoDriver => driver[delivery[o].driver].status # "SUSPENDED"

\* Nothing undoes the payment of an order in the kitchen but the two routes set aside.
LEMMA KitchenStaysPaid ==
  ASSUME TypeOK, SInv, OneByOne, "refund" \notin Ops, "markFailed" \notin Ops, KitchenPaid,
         [Next]_vars
  PROVE  KitchenPaid'
<1> SUFFICES ASSUME NEW o \in Orders, onlineToSettle(order'[o].shape),
                    order'[o].status \in KitchenStatuses
             PROVE  order'[o].paymentStatus = "PAID"
  BY DEF KitchenPaid
<1>1. onlineToSettle(order[o].shape) /\ keptMoney(o)
  BY EffectOfStep DEF SInv, RowsHold
<1>2. order[o].status \in KitchenStatuses => order[o].paymentStatus = "PAID"
  BY <1>1 DEF KitchenPaid
<1>3. CASE Same(o) \/ Deducted(o)
  BY <1>2, <1>3 DEF Same, Deducted, KeepsStatus, KeepsMoney
<1>4. CASE Created(o) \/ Closed(o) \/ Revived(o)
  BY <1>4 DEF Created, Closed, Revived, KitchenStatuses
<1>5. CASE Sold(o)
  BY <1>1, <1>5 DEF Sold, onlineToSettle
<1>6. CASE Moved(o)
  <2>1. order[o].paymentStatus = "PAID"
    BY <1>1, <1>2, <1>6 DEF Moved, mayTransition, canTransition, KitchenStatuses
  <2> QED BY <1>1, <1>6, <2>1 DEF Moved, KeepsMoney, onlineToSettle
<1>7. CASE Billed(o)
  BY <1>1, <1>2, <1>7 DEF Billed, Both, KeepsStatus, keptMoney
<1>8. CASE Carried(o)
  BY <1>2, <1>8 DEF Carried, KeepsStatus, KeepsMoney, assignableStatuses, KitchenStatuses
<1> QED BY <1>3, <1>4, <1>5, <1>6, <1>7, <1>8, EffectOfStep DEF Effect

\* Each effect that ends an order ends its course.
LEMMA CourseGoesOn ==
  ASSUME TypeOK, SInv, OneByOne, "expire" \in Ops => KitchenPaid, CourseOpen, [Next]_vars
  PROVE  CourseOpen'
<1> SUFFICES ASSUME NEW o \in Orders, delivery'[o].status \in DELIVERY_ACTIVE
             PROVE  /\ order'[o].status \in assignableStatuses
                    /\ delivery'[o].driver # NoDriver =>
                         driver'[delivery'[o].driver].status # "SUSPENDED"
  BY DEF CourseOpen
<1>1. notYet(o) /\ delivery[o].driver \in Drivers \union {NoDriver} /\ NoDriver \notin Drivers
  BY DriverNamed DEF SInv, RowsHold, TypeOK, TablesOK, DeliveryRows
<1>2. "ABSENT" \notin DELIVERY_ACTIVE /\ "DELIVERED" \notin DELIVERY_ACTIVE
      /\ "FAILED" \notin DELIVERY_ACTIVE
  BY DEF DELIVERY_ACTIVE
<1>3. CASE Still
  <2>1. delivery' = delivery /\ order'[o].status = order[o].status
    BY <1>3 DEF Still, Same, KeepsStatus
  <2>2. /\ order[o].status \in assignableStatuses
        /\ delivery[o].driver # NoDriver => driver[delivery[o].driver].status # "SUSPENDED"
    BY <2>1 DEF CourseOpen
  <2>3. ASSUME delivery[o].driver # NoDriver PROVE driver'[delivery[o].driver].status # "SUSPENDED"
    <3>1. PICK d \in Drivers : d = delivery[o].driver
      BY <1>1, <2>3
    <3>2. o \in activeDeliveries(delivery, d)
      BY <2>1, <3>1 DEF activeDeliveries
    <3> QED BY <1>3, <2>2, <2>3, <3>1, <3>2 DEF Still
  <2> QED BY <2>1, <2>2, <2>3
<1>4. CASE SameCrew
  <2>1. ASSUME KeepsCourse(o), order[o].status \in assignableStatuses => order'[o].status \in assignableStatuses
        PROVE  /\ order'[o].status \in assignableStatuses
               /\ delivery'[o].driver # NoDriver =>
                    driver'[delivery'[o].driver].status # "SUSPENDED"
    BY <1>1, <1>4, <2>1 DEF KeepsCourse, CourseOpen, SameCrew
  <2>2. CASE Same(o) \/ Billed(o) \/ Deducted(o)
    BY <2>1, <2>2 DEF Same, Billed, Deducted, KeepsStatus
  <2>3. CASE Created(o) \/ Sold(o)
    BY <1>1, <1>2, <2>3 DEF Created, Sold, KeepsCourse, notYet
  <2>4. CASE Moved(o)
    <3>1. KeepsCourse(o) /\ order'[o].status # "DELIVERED"
      BY <1>2, <2>4 DEF Moved
    <3>2. order[o].status \in assignableStatuses => order'[o].status \in assignableStatuses
      BY <2>4, <3>1 DEF Moved, mayTransition, canTransition, assignableStatuses
    <3> QED BY <2>1, <3>1, <3>2
  <2>5. CASE Closed(o)
    <3>1. KeepsCourse(o) /\ (order[o].status = "PENDING" \/ unseen(o))
      BY <1>2, <2>5 DEF Closed
    <3>2. order[o].status \in assignableStatuses
      BY <3>1 DEF CourseOpen, KeepsCourse
    <3>3. unseen(o)
      BY <3>1, <3>2 DEF assignableStatuses
    <3> QED BY <3>3 DEF unseen, KitchenPaid, isUnpaidOnline, KitchenStatuses
  <2>6. CASE Revived(o)
    BY <2>1, <2>6 DEF Revived, assignableStatuses
  <2>7. CASE Carried(o)
    <3>1. CASE /\ order[o].status \in assignableStatuses
               /\ order'[o].status = IF order[o].status = "READY" THEN "ASSIGNED" ELSE order[o].status
               /\ delivery'[o].driver \in Drivers /\ driver[delivery'[o].driver].status = "ACTIVE"
      BY <1>4, <3>1 DEF SameCrew, assignableStatuses
    <3>2. CASE /\ KeepsStatus(o) /\ delivery'[o].driver = delivery[o].driver
               /\ delivery'[o].status \in DELIVERY_ACTIVE => delivery[o].status \in DELIVERY_ACTIVE
      BY <1>1, <1>4, <3>2 DEF KeepsStatus, CourseOpen, SameCrew
    <3>3. CASE /\ order'[o].status = IF order[o].status = "ASSIGNED" THEN "READY" ELSE order[o].status
               /\ delivery'[o].status = delivery[o].status /\ delivery'[o].driver = NoDriver
      BY <3>3 DEF CourseOpen, assignableStatuses
    <3> QED BY <2>7, <3>1, <3>2, <3>3 DEF Carried
  <2>8. Same(o) \/ Effect(o)
    BY EffectOfStep
  <2> QED BY <2>2, <2>3, <2>4, <2>5, <2>6, <2>7, <2>8 DEF Effect
<1> QED BY <1>3, <1>4, EffectOfStep DEF Summary, OneOrderMoves

\* Served one after the other, whichever path ends an order ends its course, and no
\* driver is suspended with one under way.  The deadline alone does not look at the
\* course: it meets none as long as no collected payment is undone, by a refund or
\* by the back office's "mark as failed".
THEOREM CoursesEndWithOrders ==
  OneByOne /\ ("expire" \notin Ops \/ ("refund" \notin Ops /\ "markFailed" \notin Ops))
    => (Spec => []NoStrayCourse)
<1> SUFFICES ASSUME OneByOne,
                    "expire" \notin Ops \/ ("refund" \notin Ops /\ "markFailed" \notin Ops)
             PROVE  Spec => []NoStrayCourse
  OBVIOUS
<1>1. TypeOK /\ SInv /\ CourseOpen /\ [Next]_vars /\ ("expire" \in Ops => KitchenPaid) => CourseOpen'
  BY CourseGoesOn
<1>2. Init => CourseOpen /\ KitchenPaid
  BY DEF Init, NewOrder, CourseOpen, KitchenPaid, KitchenStatuses, DELIVERY_ACTIVE
<1>3. CourseOpen => NoStrayCourse
  BY DEF CourseOpen, NoStrayCourse, assignableStatuses, TERMINAL_STATUSES
<1>4. CASE "expire" \notin Ops
  <2>1. TypeOK /\ SInv /\ CourseOpen /\ [Next]_vars => CourseOpen'
    BY <1>1, <1>4
  <2> QED BY <1>2, <1>3, <2>1, AlwaysSInv, PTL DEF Spec
<1>5. CASE "refund" \notin Ops /\ "markFailed" \notin Ops
  <2>1. TypeOK /\ SInv /\ CourseOpen /\ KitchenPaid /\ [Next]_vars => (CourseOpen /\ KitchenPaid)'
    BY <1>1, <1>5, KitchenStaysPaid
  <2> QED BY <1>2, <1>3, <2>1, AlwaysSInv, PTL DEF Spec
<1> QED BY <1>4, <1>5

(***************************************************************************)
(* Ledgers                                                                 *)
(***************************************************************************)
\* A finite set that gains, or loses, one element.
LEMMA OneMore ==
  ASSUME NEW S, NEW T, IsFiniteSet(S), NEW x
  PROVE  /\ T = S \union {x} /\ x \notin S =>
              IsFiniteSet(T) /\ Cardinality(T) = Cardinality(S) + 1
         /\ T = S \ {x} /\ x \in S =>
              IsFiniteSet(T) /\ Cardinality(T) = Cardinality(S) - 1
         /\ Cardinality(S) \in Nat
<1>1. Cardinality(S) \in Nat
  BY FS_CardinalityType
<1>2. ASSUME T = S \union {x}, x \notin S
      PROVE  IsFiniteSet(T) /\ Cardinality(T) = Cardinality(S) + 1
  BY <1>2, FS_AddElement
<1>3. ASSUME T = S \ {x}, x \in S
      PROVE  IsFiniteSet(T) /\ Cardinality(T) = Cardinality(S) - 1
  BY <1>3, FS_RemoveElement
<1> QED BY <1>1, <1>2, <1>3

holders == {o \in Orders : live(o) /\ order[o].shape.coupon}

placedOnes == {o \in Orders : live(o) /\ account(o)}

cancelledOnes == {o \in Orders : order[o].status = "CANCELLED" /\ account(o)}

\* The ledgers as the proof counts them: sets that gain or lose one order at a step.
LedgersCount ==
  /\ IsFiniteSet(holders) /\ IsFiniteSet(placedOnes) /\ IsFiniteSet(cancelledOnes)
  /\ coupon = [used |-> Cardinality(holders), rows |-> holders]
  /\ profile.placed = Cardinality(placedOnes)
  /\ profile.cancelled = Cardinality(cancelledOnes)

\* An order that enters, leaves, or keeps its place, moves one element of each set.
LEMMA OneOrderCounted ==
  ASSUME TypeOK, LedgersCount, NEW o \in Orders, \A q \in Orders \ {o} : Same(q), ShapesKept
  PROVE  /\ live(o)' = live(o) /\ exists(o)' = exists(o) /\ coupon' = coupon
              /\ profile'.placed = profile.placed /\ profile'.cancelled = profile.cancelled
              => LedgersCount'
         /\ ~ exists(o) /\ live(o)' /\ TakeCoupon(o) /\ account(o)
              /\ profile'.placed = profile.placed + 1 /\ profile'.cancelled = profile.cancelled
              => LedgersCount'
         /\ live(o) /\ exists(o)' /\ ~ live(o)' /\ ReturnCoupon(o) /\ CountCancelled(o, 1)
              => LedgersCount'
         /\ exists(o) /\ ~ live(o) /\ live(o)' /\ TakeCoupon(o) /\ CountCancelled(o, -1)
              => LedgersCount'
<1>1. PICK H, P, C : H = holders /\ P = placedOnes /\ C = cancelledOnes
  OBVIOUS
<1>2. /\ IsFiniteSet(H) /\ IsFiniteSet(P) /\ IsFiniteSet(C)
      /\ coupon = [used |-> Cardinality(H), rows |-> H]
      /\ profile.placed = Cardinality(P) /\ profile.cancelled = Cardinality(C)
      /\ Cardinality(H) \in Nat /\ Cardinality(P) \in Nat /\ Cardinality(C) \in Nat
  BY <1>1, FS_CardinalityType DEF LedgersCount
<1>3. \A q \in Orders : /\ order'[q].shape = order[q].shape /\ account(q)' = account(q)
                        /\ q # o => live(q)' = live(q) /\ order'[q].status = order[q].status
  BY DEF ShapesKept, Same, KeepsStatus, live, account
<1>4. profile \in ProfileRows
  BY DEF TypeOK, TablesOK
<1>5. ASSUME live(o)' = live(o), exists(o)' = exists(o)
      PROVE  holders' = H /\ placedOnes' = P /\ cancelledOnes' = C
  BY <1>1, <1>3, <1>5 DEF holders, placedOnes, cancelledOnes, live, exists
<1>6. ASSUME live(o)', ~ live(o)
      PROVE  /\ holders' = IF order[o].shape.coupon THEN H \union {o} ELSE H
             /\ placedOnes' = IF account(o) THEN P \union {o} ELSE P
             /\ cancelledOnes' = C \ {o} /\ o \notin H /\ o \notin P
  BY <1>1, <1>3, <1>6 DEF holders, placedOnes, cancelledOnes, live
<1>7. ASSUME live(o), ~ live(o)', exists(o)'
      PROVE  /\ holders' = H \ {o} /\ placedOnes' = P \ {o}
             /\ cancelledOnes' = IF account(o) THEN C \union {o} ELSE C
             /\ o \notin C /\ (order[o].shape.coupon <=> o \in H) /\ (account(o) <=> o \in P)
  BY <1>1, <1>3, <1>7 DEF holders, placedOnes, cancelledOnes, live, exists
<1>8. ASSUME live(o)' = live(o), exists(o)' = exists(o), coupon' = coupon,
             profile'.placed = profile.placed, profile'.cancelled = profile.cancelled
      PROVE  LedgersCount'
  BY <1>2, <1>5, <1>8 DEF LedgersCount
<1>9. ASSUME ~ live(o), live(o)', TakeCoupon(o)
      PROVE  /\ IsFiniteSet(holders') /\ IsFiniteSet(placedOnes') /\ IsFiniteSet(cancelledOnes')
             /\ coupon' = [used |-> Cardinality(holders'), rows |-> holders']
             /\ Cardinality(placedOnes') = Cardinality(P) + (IF account(o) THEN 1 ELSE 0)
             /\ Cardinality(cancelledOnes') = Cardinality(C) - (IF o \in C THEN 1 ELSE 0)
  <2>1. IsFiniteSet(holders') /\ coupon' = [used |-> Cardinality(holders'), rows |-> holders']
    BY <1>2, <1>6, <1>9, OneMore DEF TakeCoupon
  <2>2. /\ IsFiniteSet(placedOnes')
        /\ Cardinality(placedOnes') = Cardinality(P) + (IF account(o) THEN 1 ELSE 0)
    BY <1>2, <1>6, <1>9, OneMore
  <2>3. CASE o \in C
    BY <1>2, <1>6, <1>9, <2>1, <2>2, <2>3, OneMore
  <2>4. CASE o \notin C
    <3>1. cancelledOnes' = C
      BY <1>6, <1>9, <2>4
    <3> QED BY <1>2, <2>1, <2>2, <2>4, <3>1
  <2> QED BY <2>3, <2>4
<1>10. ASSUME ~ exists(o), live(o)', TakeCoupon(o), account(o),
              profile'.placed = profile.placed + 1, profile'.cancelled = profile.cancelled
       PROVE  LedgersCount'
  <2>1. ~ live(o) /\ o \notin C
    BY <1>1, <1>10 DEF live, exists, cancelledOnes
  <2> QED BY <1>2, <1>9, <1>10, <2>1 DEF LedgersCount
<1>11. ASSUME live(o), exists(o)', ~ live(o)', ReturnCoupon(o), CountCancelled(o, 1)
       PROVE  LedgersCount'
  <2>1. IsFiniteSet(holders') /\ coupon' = [used |-> Cardinality(holders'), rows |-> holders']
    <3>1. CASE o \in H
      BY <1>2, <1>7, <1>11, <3>1, OneMore DEF ReturnCoupon
    <3>2. CASE o \notin H
      <4>1. holders' = H
        BY <1>7, <1>11, <3>2
      <4> QED BY <1>2, <1>7, <1>11, <3>2, <4>1 DEF ReturnCoupon
    <3> QED BY <3>1, <3>2
  <2>2. CASE account(o)
    <3>1. /\ IsFiniteSet(placedOnes') /\ Cardinality(placedOnes') = Cardinality(P) - 1
          /\ IsFiniteSet(cancelledOnes') /\ Cardinality(cancelledOnes') = Cardinality(C) + 1
      BY <1>2, <1>7, <1>11, <2>2, OneMore
    <3>2. profile'.placed = profile.placed - 1 /\ profile'.cancelled = profile.cancelled + 1
      BY <1>4, <1>11, <2>2 DEF CountCancelled, ProfileRows
    <3> QED BY <1>2, <2>1, <3>1, <3>2 DEF LedgersCount
  <2>3. CASE ~ account(o)
    <3>1. placedOnes' = P /\ cancelledOnes' = C
      BY <1>7, <1>11, <2>3
    <3>2. profile' = profile
      BY <1>11, <2>3 DEF CountCancelled
    <3> QED BY <1>2, <2>1, <3>1, <3>2 DEF LedgersCount
  <2> QED BY <2>2, <2>3
<1>12. ASSUME exists(o), ~ live(o), live(o)', TakeCoupon(o), CountCancelled(o, -1)
       PROVE  LedgersCount'
  <2>1. o \in C <=> account(o)
    BY <1>1, <1>12 DEF live, exists, cancelledOnes
  <2>2. /\ profile'.placed = profile.placed + (IF account(o) THEN 1 ELSE 0)
        /\ profile'.cancelled = profile.cancelled - (IF account(o) THEN 1 ELSE 0)
    BY <1>4, <1>12 DEF CountCancelled, ProfileRows
  <2> QED BY <1>2, <1>9, <1>12, <2>1, <2>2 DEF LedgersCount
<1> QED BY <1>8, <1>10, <1>11, <1>12

\* Each effect moves both ledgers with its order.
LEMMA LedgersGoOn ==
  ASSUME TypeOK, SInv, OneByOne, LedgersCount, [Next]_vars
  PROVE  LedgersCount'
<1>1. Summary
  BY EffectOfStep
<1>2. profile \in ProfileRows
  BY DEF TypeOK, TablesOK
<1>3. CASE Still
  <2>1. \A q \in Orders : /\ order'[q].shape = order[q].shape /\ order'[q].status = order[q].status
    BY <1>1, <1>3 DEF Summary, ShapesKept, Still, Same, KeepsStatus
  <2>2. holders' = holders /\ placedOnes' = placedOnes /\ cancelledOnes' = cancelledOnes
    BY <2>1 DEF holders, placedOnes, cancelledOnes, live, account
  <2> QED BY <1>3, <2>2 DEF LedgersCount, Still, SameLedgers
<1>4. ASSUME NEW o \in Orders, Effect(o), \A q \in Orders \ {o} : Same(q) PROVE LedgersCount'
  <2>1. ShapesKept /\ order[o].shape \in Shapes
    BY <1>1 DEF Summary, SInv, RowsHold
  <2>2. ASSUME live(o)' = live(o), exists(o)' = exists(o), coupon' = coupon,
               profile'.placed = profile.placed, profile'.cancelled = profile.cancelled
        PROVE  LedgersCount'
    BY <1>4, <2>1, <2>2, OneOrderCounted
  <2>3. CASE Created(o)
    <3>1. /\ ~ exists(o) /\ account(o) /\ live(o)' /\ TakeCoupon(o)
          /\ profile'.placed = profile.placed + 1 /\ profile'.cancelled = profile.cancelled
      BY <1>2, <2>3 DEF Created, live, ProfileRows
    <3> QED BY <1>4, <2>1, <3>1, OneOrderCounted
  <2>4. CASE Sold(o)
    <3>1. ~ order[o].shape.coupon /\ ~ account(o)
      BY <2>1, <2>4, StoreAssumption DEF StoreAssumption, Sold, account
    <3>2. \A q \in Orders : /\ order'[q].shape = order[q].shape
                            /\ q # o => order'[q].status = order[q].status
      BY <1>4, <2>1 DEF ShapesKept, Same, KeepsStatus
    <3>3. holders' = holders /\ placedOnes' = placedOnes /\ cancelledOnes' = cancelledOnes
      BY <3>1, <3>2 DEF holders, placedOnes, cancelledOnes, live, account
    <3> QED BY <2>4, <3>3 DEF LedgersCount, Sold, SameLedgers
  <2>5. CASE Moved(o)
    <3>1. /\ live(o)' = live(o) /\ exists(o)' = exists(o)
      BY <2>5 DEF Moved, live, exists, mayTransition, canTransition
    <3>2. profile'.placed = profile.placed /\ profile'.cancelled = profile.cancelled
      BY <1>2, <2>5 DEF Moved, ProfileRows
    <3> QED BY <2>2, <2>5, <3>1, <3>2 DEF Moved
  <2>6. CASE Closed(o)
    <3>1. live(o) /\ exists(o)' /\ ~ live(o)' /\ ReturnCoupon(o) /\ CountCancelled(o, 1)
      BY <2>6 DEF Closed, live, exists, mayTransition, canTransition
    <3> QED BY <1>4, <2>1, <3>1, OneOrderCounted
  <2>7. CASE Revived(o)
    <3>1. exists(o) /\ ~ live(o) /\ live(o)' /\ TakeCoupon(o) /\ CountCancelled(o, -1)
      BY <2>7 DEF Revived, live, exists
    <3> QED BY <1>4, <2>1, <3>1, OneOrderCounted
  <2>8. CASE Billed(o)
    <3>1. /\ live(o)' = live(o) /\ exists(o)' = exists(o)
      BY <2>8 DEF Billed, KeepsStatus, live, exists
    <3>2. profile'.placed = profile.placed /\ profile'.cancelled = profile.cancelled
      BY <1>2, <2>8 DEF Billed, ProfileRows
    <3> QED BY <2>2, <2>8, <3>1, <3>2 DEF Billed
  <2>9. CASE Carried(o) \/ Deducted(o)
    <3>1. /\ live(o)' = live(o) /\ exists(o)' = exists(o)
      BY <2>9 DEF Carried, Deducted, KeepsStatus, live, exists, assignableStatuses
    <3> QED BY <2>2, <2>9, <3>1 DEF Carried, Deducted, SameLedgers
  <2> QED BY <1>4, <2>3, <2>4, <2>5, <2>6, <2>7, <2>8, <2>9 DEF Effect
<1> QED BY <1>1, <1>3, <1>4 DEF Summary, OneOrderMoves

\* Served one after the other, by whichever of six paths an order ends and however
\* often a late payment revives it, the promotion's count and the customer's are
\* those of the orders; a crash in the middle of a request does not undo it.
THEOREM LedgersAreBalanced == OneByOne => (Spec => []LedgersBalance)
<1> SUFFICES ASSUME OneByOne PROVE Spec => []LedgersBalance
  OBVIOUS
<1>1. Init => LedgersCount
  <2> SUFFICES ASSUME Init PROVE LedgersCount
    OBVIOUS
  <2>1. holders = {} /\ placedOnes = {} /\ cancelledOnes = {}
    BY DEF Init, NewOrder, holders, placedOnes, cancelledOnes, live
  <2> QED BY <2>1, FS_EmptySet DEF LedgersCount, Init
<1>2. TypeOK /\ SInv /\ LedgersCount /\ [Next]_vars => LedgersCount'
  BY LedgersGoOn
<1>3. TypeOK /\ LedgersCount => LedgersBalance
  <2> SUFFICES ASSUME TypeOK, LedgersCount PROVE LedgersBalance
    OBVIOUS
  <2>1. CouponLedger
    BY DEF LedgersCount, CouponLedger, holders
  <2> DEFINE mine == {o \in Orders : exists(o) /\ account(o)}
  <2>2. {o \in mine : live(o)} = placedOnes /\ {o \in mine : ~ live(o)} = cancelledOnes
    BY DEF placedOnes, cancelledOnes, live, exists
  <2>3. ProfileLedger
    BY <2>2 DEF LedgersCount, ProfileLedger
  <2> QED BY <2>1, <2>3 DEF LedgersBalance
<1> QED BY <1>1, <1>2, <1>3, AlwaysSInv, PTL DEF Spec

(***************************************************************************)
(* What serving an order leaves behind                                     *)
(***************************************************************************)
served == {o \in Orders : account(o) /\ order[o].status = "DELIVERED"}

\* The stock is taken out once, when the order is marked; what is served is spent,
\* and nothing is given back.
Counted ==
  /\ \A o \in Orders : deducted[o] = IF order[o].consumed THEN 1 ELSE 0
  /\ \A o \in Orders : payment[o] # "REFUNDED"
  /\ IsFiniteSet(served) /\ profile.spent = Cardinality(served)

\* Each effect deducts, and adds, once.
LEMMA CountingGoesOn ==
  ASSUME TypeOK, SInv, OneByOne, "refund" \notin Ops, Counted, [Next]_vars
  PROVE  Counted'
<1>1. Summary /\ profile \in ProfileRows
  BY EffectOfStep DEF TypeOK, TablesOK
<1>2. \A o \in Orders : deducted'[o] = IF order'[o].consumed THEN 1 ELSE 0
  <2> SUFFICES ASSUME NEW o \in Orders PROVE deducted'[o] = IF order'[o].consumed THEN 1 ELSE 0
    OBVIOUS
  <2>1. CASE KeepsStock(o)
    BY <2>1 DEF KeepsStock, Counted
  <2>2. CASE Deducted(o)
    BY <2>2 DEF Deducted, Counted
  <2>3. KeepsStock(o) \/ Deducted(o)
    BY EffectOfStep DEF Same, Effect, Created, Sold, Moved, Closed, Revived, Billed, Carried
  <2> QED BY <2>1, <2>2, <2>3
<1>3. \A o \in Orders : payment'[o] # "REFUNDED"
  <2> SUFFICES ASSUME NEW o \in Orders PROVE payment'[o] # "REFUNDED"
    OBVIOUS
  <2>1. CASE KeepsMoney(o)
    BY <2>1 DEF KeepsMoney, Counted
  <2>2. CASE Created(o) \/ Sold(o) \/ Moved(o) \/ Closed(o) \/ Revived(o) \/ Billed(o)
    BY <2>2 DEF Created, Sold, Moved, Closed, Revived, Billed, Both, KeepsMoney, Counted
  <2> QED BY <2>1, <2>2, EffectOfStep DEF Same, Effect, Carried, Deducted
<1>4. IsFiniteSet(served') /\ profile'.spent = Cardinality(served')
  <2>1. \A q \in Orders : account(q)' = account(q)
    BY <1>1 DEF Summary, ShapesKept, account
  <2>2. CASE Still
    <3>1. served' = served
      BY <2>1, <2>2 DEF served, Still, Same, KeepsStatus
    <3> QED BY <2>2, <3>1 DEF Still, SameLedgers, Counted
  <2>3. ASSUME NEW o \in Orders, Effect(o), \A q \in Orders \ {o} : Same(q)
        PROVE  IsFiniteSet(served') /\ profile'.spent = Cardinality(served')
    <3>1. \A q \in Orders \ {o} : order'[q].status = order[q].status
      BY <2>3 DEF Same, KeepsStatus
    <3>2. PICK S : S = served
      OBVIOUS
    <3>3. IsFiniteSet(S) /\ profile.spent = Cardinality(S) /\ Cardinality(S) \in Nat
      BY <3>2, FS_CardinalityType DEF Counted
    <3>4. ASSUME (order'[o].status = "DELIVERED") = (order[o].status = "DELIVERED") \/ ~ account(o),
                 profile'.spent = profile.spent
          PROVE  IsFiniteSet(served') /\ profile'.spent = Cardinality(served')
      <4>1. served' = S
        BY <2>1, <3>1, <3>2, <3>4 DEF served
      <4> QED BY <3>3, <3>4, <4>1
    <3>5. CASE Created(o) \/ Revived(o)
      BY <1>1, <3>4, <3>5 DEF Created, Revived, CountCancelled, exists, ProfileRows
    <3>6. CASE Closed(o)
      BY <1>1, <3>4, <3>6 DEF Closed, CountCancelled, mayTransition, canTransition, ProfileRows
    <3>7. CASE Sold(o)
      BY <3>4, <3>7 DEF Sold, SameLedgers, account
    <3>8. CASE Billed(o)
      BY <3>4, <3>8 DEF Billed, KeepsStatus
    <3>9. CASE Carried(o) \/ Deducted(o)
      BY <3>4, <3>9 DEF Carried, Deducted, KeepsStatus, SameLedgers, assignableStatuses
    <3>10. CASE Moved(o)
      <4>1. order[o].status # "DELIVERED"
        BY <3>10 DEF Moved, mayTransition, canTransition
      <4>2. CASE order'[o].status = "DELIVERED" /\ account(o)
        <5>1. served' = S \union {o} /\ o \notin S
          BY <2>1, <3>1, <3>2, <4>1, <4>2 DEF served
        <5>2. profile'.spent = profile.spent + 1
          BY <1>1, <3>10, <4>2 DEF Moved, ProfileRows
        <5> QED BY <3>3, <5>1, <5>2, OneMore
      <4>3. CASE ~ (order'[o].status = "DELIVERED" /\ account(o))
        BY <3>4, <3>10, <4>1, <4>3 DEF Moved
      <4> QED BY <4>2, <4>3
    <3> QED BY <2>3, <3>5, <3>6, <3>7, <3>8, <3>9, <3>10 DEF Effect
  <2> QED BY <1>1, <2>2, <2>3 DEF Summary, OneOrderMoves
<1> QED BY <1>2, <1>3, <1>4 DEF Counted

\* Served one after the other, and as long as nothing is refunded, an order is
\* deducted from the stock once and added to what its customer spent once, whichever
\* of the back office, the courier and the counter served it.
THEOREM ServedOnce == OneByOne /\ "refund" \notin Ops => (Spec => []CountedOnce)
<1> SUFFICES ASSUME OneByOne, "refund" \notin Ops PROVE Spec => []CountedOnce
  OBVIOUS
<1>1. Init => Counted
  <2> SUFFICES ASSUME Init PROVE Counted
    OBVIOUS
  <2>1. served = {}
    BY DEF Init, NewOrder, served
  <2> QED BY <2>1, FS_EmptySet DEF Counted, Init, NewOrder
<1>2. TypeOK /\ SInv /\ Counted /\ [Next]_vars => Counted'
  BY CountingGoesOn
<1>3. Counted => CountedOnce
  <2> SUFFICES ASSUME Counted PROVE CountedOnce
    OBVIOUS
  <2>1. DeductedOnce
    BY DEF Counted, DeductedOnce
  <2>2. served = {o \in Orders : /\ account(o) /\ order[o].status = "DELIVERED"
                                 /\ payment[o] # "REFUNDED"}
    BY DEF Counted, served
  <2>3. SpentIsWhatWasKept
    BY <2>2 DEF Counted, SpentIsWhatWasKept
  <2> QED BY <2>1, <2>3 DEF CountedOnce
<1> QED BY <1>1, <1>2, <1>3, AlwaysSInv, PTL DEF Spec
===============================================================================
