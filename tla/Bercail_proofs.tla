--------------------------- MODULE Bercail_proofs ---------------------------
(***************************************************************************)
(* Bercail for every value of its constants, whatever interleaves and      *)
(* crashes: every row has its type and every request holds what its next   *)
(* step writes (TypeCorrect), and no order settled online reaches the      *)
(* kitchen before its money (NothingStarts, NoKitchenBeforeMoney).  The    *)
(* proofs have one step per action, over lemmas on what the shared writes  *)
(* return.                                                                 *)
(***************************************************************************)
EXTENDS Bercail, TLAPS

\* Nothing has been ordered: every table holds typed rows and every slot is idle.
LEMMA InitType == Init => TypeOK
<1> SUFFICES ASSUME Init PROVE TypeOK
  OBVIOUS
<1>1. order \in [Orders -> OrderRows]
  <2>1. PICK shapes \in [Orders -> Shapes] : order = [o \in Orders |-> NewOrder(shapes[o])]
    BY DEF Init
  <2>2. \A o \in Orders : NewOrder(shapes[o]) \in OrderRows
    BY StoreAssumption DEF NewOrder, OrderRows, PaymentStatuses, Reasons
  <2> QED BY <2>1, <2>2
<1>2. delivery \in [Orders -> DeliveryRows]
  BY DEF Init, DeliveryRows
<1>3. driver \in [Drivers -> DriverRows]
  BY DEF Init, DriverRows, AccountStatuses
<1>4. Idle \in RequestRows /\ wellFormed(Idle)
  BY DEF Idle, RequestRows, Steps, Callers, Targets, wellFormed, DriverSteps
<1>5. RequestsOK
  BY <1>4 DEF Init, RequestsOK
<1>6. TablesOK
  BY <1>1, <1>2, <1>3 DEF Init, TablesOK, CouponRows, ProfileRows, OperatorRows
<1> QED BY <1>5, <1>6 DEF TypeOK

\* A request slot holds a typed row again after any of the four ways to move on.
LEMMA BeginTyped ==
  ASSUME RequestsOK, NEW r \in Requests, NEW op, NEW row \in RequestRows, wellFormed(row),
         Begin(r, op, row)
  PROVE  RequestsOK'
BY DEF RequestsOK, Begin, wellFormed

\* A request that goes on to a typed row leaves a typed slot.
LEMMA ContinueTyped ==
  ASSUME RequestsOK, NEW r \in Requests, NEW row \in RequestRows, wellFormed(row),
         Continue(r, row)
  PROVE  RequestsOK'
BY DEF RequestsOK, Continue, wellFormed

\* A free slot is typed.
LEMMA IdleTyped == Idle \in RequestRows /\ wellFormed(Idle)
BY DEF Idle, RequestRows, Steps, Callers, Targets, wellFormed, DriverSteps

\* A request that ends leaves a typed slot.
LEMMA FinishTyped ==
  ASSUME RequestsOK, NEW r \in Requests, Finish(r)
  PROVE  RequestsOK'
BY IdleTyped, ContinueTyped DEF Finish

\* The steps at which a request names an order and nothing else.
PlainSteps == Steps \ ({"idle", "statusCommit", "systemRead", "systemCommit",
                        "moveCommit", "assignCommit", "declineCommit"} \union DriverSteps)

\* A request that goes on to a plain step of an order is typed.
LEMMA OnTyped ==
  ASSUME NEW step \in PlainSteps, NEW o \in Orders
  PROVE  On(step, o) \in RequestRows /\ wellFormed(On(step, o))
BY DEF On, Idle, RequestRows, Steps, Callers, Targets, wellFormed, DriverSteps, PlainSteps

\* A called handler returns to a typed row: its caller waits at a plain step.
LEMMA ReturnTyped ==
  ASSUME RequestsOK, NEW r \in Requests, Return(r), requests[r].next # "idle"
  PROVE  RequestsOK'
<1>1. CASE requests[r].back = "idle"
  BY <1>1, FinishTyped DEF Return
<1>2. CASE requests[r].back # "idle"
  <2>1. requests[r].back \in PlainSteps /\ requests[r].order \in Orders
    BY <1>2 DEF RequestsOK, RequestRows, Callers, PlainSteps, Steps, DriverSteps, wellFormed
  <2> QED BY <1>2, <2>1, OnTyped, ContinueTyped DEF Return
<1> QED BY <1>1, <1>2

\* Going on to a plain step, with other facts or another target, keeps the row typed.
LEMMA StepTyped ==
  ASSUME RequestsOK, NEW r \in Requests, requests[r].next \notin DriverSteps \union {"idle"},
         NEW step \in PlainSteps, NEW seen \in SUBSET Facts, NEW target \in Targets
  PROVE  /\ [requests[r] EXCEPT !.next = step] \in RequestRows
         /\ wellFormed([requests[r] EXCEPT !.next = step])
         /\ [requests[r] EXCEPT !.next = step, !.seen = seen] \in RequestRows
         /\ wellFormed([requests[r] EXCEPT !.next = step, !.seen = seen])
         /\ [requests[r] EXCEPT !.next = step, !.target = target] \in RequestRows
         /\ wellFormed([requests[r] EXCEPT !.next = step, !.target = target])
<1> DEFINE row == requests[r]
<1>1. row \in RequestRows /\ row.order \in Orders
  BY DEF RequestsOK, wellFormed
<1> HIDE DEF row
<1>2. /\ [row EXCEPT !.next = step] \in RequestRows
      /\ wellFormed([row EXCEPT !.next = step])
  BY <1>1 DEF RequestRows, wellFormed, PlainSteps, DriverSteps
<1>3. /\ [row EXCEPT !.next = step, !.seen = seen] \in RequestRows
      /\ wellFormed([row EXCEPT !.next = step, !.seen = seen])
  BY <1>1 DEF RequestRows, wellFormed, PlainSteps, DriverSteps
<1>4. /\ [row EXCEPT !.next = step, !.target = target] \in RequestRows
      /\ wellFormed([row EXCEPT !.next = step, !.target = target])
  BY <1>1 DEF RequestRows, wellFormed, PlainSteps, DriverSteps
<1> QED BY <1>2, <1>3, <1>4 DEF row

\* A request under way names an order, unless it is about a driver alone.
LEMMA AtOrder ==
  ASSUME RequestsOK, NEW r \in Requests, requests[r].next \notin DriverSteps \union {"idle"}
  PROVE  requests[r].order \in Orders
BY DEF RequestsOK, wellFormed

\* A step that writes no table keeps every row typed.
LEMMA SameTables ==
  ASSUME TablesOK, UNCHANGED tables
  PROVE  TablesOK'
BY DEF TablesOK, tables, orderVars, moneyVars, ledgerVars, fleetVars, kitchenVars

\* A step that is no request keeps every slot typed.
LEMMA SameRequests ==
  ASSUME RequestsOK, UNCHANGED <<calls, requests>>
  PROVE  RequestsOK'
BY DEF RequestsOK

\* An order row stays typed whichever of its columns a handler writes.
LEMMA RowTyped ==
  ASSUME NEW row \in OrderRows, NEW status \in OrderStatuses,
         NEW paid \in PaymentStatuses, NEW reason \in Reasons
  PROVE  /\ [row EXCEPT !.status = status] \in OrderRows
         /\ [row EXCEPT !.paymentStatus = paid] \in OrderRows
         /\ [row EXCEPT !.status = status, !.reason = reason] \in OrderRows
         /\ [row EXCEPT !.status = status, !.paymentStatus = paid] \in OrderRows
         /\ [row EXCEPT !.paymentStatus = paid, !.status = status, !.reason = reason]
              \in OrderRows
         /\ [row EXCEPT !.status = status, !.reason = reason, !.paymentStatus = paid]
              \in OrderRows
<1>1. /\ [row EXCEPT !.status = status] \in OrderRows
      /\ [row EXCEPT !.paymentStatus = paid] \in OrderRows
  BY DEF OrderRows
<1>2. /\ [row EXCEPT !.status = status, !.reason = reason] \in OrderRows
      /\ [row EXCEPT !.status = status, !.paymentStatus = paid] \in OrderRows
  BY DEF OrderRows
<1>3. [row EXCEPT !.paymentStatus = paid, !.status = status, !.reason = reason] \in OrderRows
  BY DEF OrderRows
<1>4. [row EXCEPT !.status = status, !.reason = reason, !.paymentStatus = paid] \in OrderRows
  BY DEF OrderRows
<1> QED BY <1>1, <1>2, <1>3, <1>4

\* Moving an order to a status of the machine keeps orders and history typed.
LEMMA StatusTyped ==
  ASSUME TablesOK, NEW o \in Orders, NEW status \in OrderStatuses, WriteStatus(o, status)
  PROVE  /\ order' \in [Orders -> OrderRows]
         /\ history' \in [Orders -> OrderStatuses \union {"ABSENT"}]
<1>1. /\ order \in [Orders -> OrderRows]
      /\ history \in [Orders -> OrderStatuses \union {"ABSENT"}]
  BY DEF TablesOK
<1>2. order' \in [Orders -> OrderRows]
  BY <1>1, RowTyped DEF WriteStatus, PaymentStatuses, Reasons
<1>3. history' \in [Orders -> OrderStatuses \union {"ABSENT"}]
  BY <1>1 DEF WriteStatus
<1> QED BY <1>2, <1>3

\* So does closing it with one of the reasons.
LEMMA CloseTyped ==
  ASSUME TablesOK, NEW o \in Orders, NEW reason \in Reasons, CloseOrder(o, reason)
  PROVE  /\ order' \in [Orders -> OrderRows]
         /\ history' \in [Orders -> OrderStatuses \union {"ABSENT"}]
<1>1. /\ order \in [Orders -> OrderRows] /\ "CANCELLED" \in OrderStatuses
      /\ history \in [Orders -> OrderStatuses \union {"ABSENT"}]
  BY DEF TablesOK, OrderStatuses
<1>2. order' \in [Orders -> OrderRows]
  BY <1>1, RowTyped DEF CloseOrder, PaymentStatuses
<1>3. history' \in [Orders -> OrderStatuses \union {"ABSENT"}]
  BY <1>1 DEF CloseOrder
<1> QED BY <1>2, <1>3

\* Taking or giving back a coupon keeps the promotion typed.
LEMMA CouponTyped ==
  ASSUME TablesOK, NEW o \in Orders, TakeCoupon(o) \/ ReturnCoupon(o)
  PROVE  coupon' \in CouponRows
BY DEF TablesOK, TakeCoupon, ReturnCoupon, CouponRows

\* Moving orders between the two counts keeps the profile typed.
LEMMA CountTyped ==
  ASSUME TablesOK, NEW o \in Orders, NEW n \in Int, CountCancelled(o, n)
  PROVE  profile' \in ProfileRows
<1>1. profile \in ProfileRows
  BY DEF TablesOK
<1>2. [profile EXCEPT !.placed = profile.placed - n, !.cancelled = profile.cancelled + n]
        \in ProfileRows
  <2>1. profile.placed - n \in Int /\ profile.cancelled + n \in Int
    BY <1>1 DEF ProfileRows
  <2> QED BY <1>1, <2>1 DEF ProfileRows
<1>3. \/ profile' = profile
      \/ profile' = [profile EXCEPT !.placed = profile.placed - n,
                                    !.cancelled = profile.cancelled + n]
  BY DEF CountCancelled
<1> QED BY <1>1, <1>2, <1>3

\* Moving and settling an order keeps all it writes typed.
LEMMA MoveTyped ==
  ASSUME TablesOK, NEW o \in Orders, NEW target \in OrderStatuses, MoveAndSettle(o, target)
  PROVE  /\ order' \in [Orders -> OrderRows]
         /\ history' \in [Orders -> OrderStatuses \union {"ABSENT"}]
         /\ profile' \in ProfileRows
         /\ payment' \in [Orders -> PaymentStatuses \union {"ABSENT"}]
         /\ everPaid' \in [Orders -> BOOLEAN]
<1>1. order' \in [Orders -> OrderRows]
  <2> DEFINE paid == IF cashSettled(o, target) THEN "PAID" ELSE order[o].paymentStatus
             row  == [order[o] EXCEPT !.status = target, !.paymentStatus = paid]
  <2>1. order \in [Orders -> OrderRows]
    BY DEF TablesOK
  <2>2. paid \in PaymentStatuses
    BY <2>1 DEF OrderRows, PaymentStatuses
  <2>3. order' = [order EXCEPT ![o] = row]
    BY <2>1 DEF MoveAndSettle, OrderRows
  <2> HIDE DEF paid
  <2>4. row \in OrderRows
    BY <2>1, <2>2, RowTyped DEF Reasons
  <2> QED BY <2>1, <2>3, <2>4
<1>2. history' \in [Orders -> OrderStatuses \union {"ABSENT"}]
  BY DEF TablesOK, MoveAndSettle
<1>3. profile' \in ProfileRows
  BY DEF TablesOK, MoveAndSettle, ProfileRows
<1>4. /\ payment' \in [Orders -> PaymentStatuses \union {"ABSENT"}]
      /\ everPaid' \in [Orders -> BOOLEAN]
  BY DEF TablesOK, MoveAndSettle, moneyVars, PaymentStatuses
<1> QED BY <1>1, <1>2, <1>3, <1>4

\* Deliveries and drivers stay typed under the writes handlers make to them.
LEMMA DeliveryTyped ==
  ASSUME TablesOK, NEW o \in Orders, NEW status \in DELIVERY_ACTIVE \union DELIVERY_TERMINAL
  PROVE  [delivery EXCEPT ![o].status = status] \in [Orders -> DeliveryRows]
<1>1. delivery \in [Orders -> DeliveryRows]
  BY DEF TablesOK
<1> QED BY <1>1 DEF DeliveryRows

\* Freeing a driver keeps the fleet typed.
LEMMA FreedTyped ==
  ASSUME TablesOK, NEW freed
  PROVE  [d \in Drivers |-> IF d = freed THEN [driver[d] EXCEPT !.available = TRUE]
                                        ELSE driver[d]] \in [Drivers -> DriverRows]
<1>1. driver \in [Drivers -> DriverRows]
  BY DEF TablesOK
<1> QED BY <1>1 DEF DriverRows

\* Writing a payment keeps payments typed.
LEMMA PaymentTyped ==
  ASSUME TablesOK, NEW o \in Orders, NEW status \in PaymentStatuses
  PROVE  [payment EXCEPT ![o] = status] \in [Orders -> PaymentStatuses \union {"ABSENT"}]
BY DEF TablesOK

\* Writing an order's copy of the payment status keeps orders typed.
LEMMA CopyTyped ==
  ASSUME TablesOK, NEW o \in Orders, NEW paid \in PaymentStatuses
  PROVE  [order EXCEPT ![o].paymentStatus = paid] \in [Orders -> OrderRows]
<1>1. order \in [Orders -> OrderRows]
  BY DEF TablesOK
<1> QED BY <1>1, RowTyped DEF Reasons, OrderStatuses

\* Every action of the orders service and of its cron job preserves TypeOK.
LEMMA OrdersType ==
  ASSUME TypeOK, OrdersNext
  PROVE  TypeOK'
<1> USE DEF TypeOK
<1>1. ASSUME NEW r \in Requests, NEW o \in Orders, CreateRead(r, o) PROVE TypeOK'
  <2>1. On("createCommit", o) \in RequestRows /\ wellFormed(On("createCommit", o))
    BY OnTyped DEF PlainSteps, Steps, DriverSteps
  <2> QED BY <1>1, <2>1, BeginTyped, SameTables DEF CreateRead
<1>2. ASSUME NEW r \in Requests, NEW o \in Orders, PosCreate(r, o) PROVE TypeOK'
  <2>1. [On("consumeRead", o) EXCEPT !.back = "announce"] \in RequestRows
        /\ wellFormed([On("consumeRead", o) EXCEPT !.back = "announce"])
    BY DEF On, Idle, RequestRows, Steps, Callers, Targets, wellFormed, DriverSteps
  <2>2. RequestsOK'
    BY <1>2, <2>1, BeginTyped DEF PosCreate
  <2>3. TablesOK'
    <3>1. PICK status \in {"DELIVERED", "CONFIRMED"}, paid \in {"PAID", "PENDING"} :
            /\ order' = [order EXCEPT ![o].status = status, ![o].paymentStatus = paid]
            /\ history' = [history EXCEPT ![o] = status]
            /\ payment' = [payment EXCEPT ![o] = paid]
            /\ everPaid' = [everPaid EXCEPT ![o] = paid = "PAID"]
      BY <1>2 DEF PosCreate
    <3>2. status \in OrderStatuses /\ paid \in PaymentStatuses
      BY DEF OrderStatuses, PaymentStatuses
    <3>3. order' \in [Orders -> OrderRows]
      <4>1. order \in [Orders -> OrderRows]
        BY DEF TablesOK
      <4>2. order' = [order EXCEPT ![o] = [order[o] EXCEPT !.status = status,
                                                           !.paymentStatus = paid]]
        BY <3>1, <4>1 DEF OrderRows
      <4> QED BY <3>2, <4>1, <4>2, RowTyped DEF Reasons
    <3>4. history' \in [Orders -> OrderStatuses \union {"ABSENT"}]
      BY <3>1, <3>2 DEF TablesOK
    <3>5. /\ payment' \in [Orders -> PaymentStatuses \union {"ABSENT"}]
          /\ everPaid' \in [Orders -> BOOLEAN]
      BY <3>1, <3>2 DEF TablesOK
    <3> QED BY <1>2, <3>3, <3>4, <3>5 DEF PosCreate, TablesOK, ledgerVars, fleetVars,
                                         kitchenVars
  <2> QED BY <2>2, <2>3
<1>3. ASSUME NEW r \in Requests, NEW o \in Orders, CancelRead(r, o) PROVE TypeOK'
  <2> DEFINE seen == (IF delivery[o].status # "ABSENT" THEN {"delivery"} ELSE {})
                       \union (IF payment[o] = "PENDING" THEN {"paymentPending"} ELSE {})
             row == [On("cancelCommit", o) EXCEPT !.driver = delivery[o].driver, !.seen = seen]
  <2>1. seen \in SUBSET Facts /\ delivery[o].driver \in Drivers \union {NoDriver}
    BY DEF TablesOK, DeliveryRows, Facts
  <2> HIDE DEF seen
  <2>2. row \in RequestRows /\ wellFormed(row)
    BY <2>1 DEF On, Idle, RequestRows, Steps, Callers, Targets, wellFormed, DriverSteps
  <2>3. Begin(r, "cancel", row) /\ UNCHANGED tables
    BY <1>3 DEF CancelRead, seen
  <2> QED BY <2>2, <2>3, BeginTyped, SameTables
<1>4. ASSUME NEW r \in Requests, NEW o \in Orders, NEW target \in OrderStatuses,
             UpdateStatusRead(r, o, target)
      PROVE  TypeOK'
  <2>1. /\ Towards("statusCommit", o, target) \in RequestRows
        /\ wellFormed(Towards("statusCommit", o, target))
    BY DEF Towards, On, Idle, RequestRows, Steps, Callers, Targets, wellFormed, DriverSteps
  <2> QED BY <1>4, <2>1, BeginTyped, SameTables DEF UpdateStatusRead
<1>5. ASSUME NEW r \in Requests, CreateCommit(r) PROVE TypeOK'
  <2> DEFINE o == requests[r].order
  <2>1. o \in Orders
    BY <1>5, AtOrder DEF CreateCommit, At, DriverSteps
  <2>2. RequestsOK'
    <3>1. On("announce", o) \in RequestRows /\ wellFormed(On("announce", o))
      BY <2>1, OnTyped DEF PlainSteps, Steps, DriverSteps
    <3> QED BY <1>5, <3>1, IdleTyped, ContinueTyped DEF CreateCommit
  <2>3. TablesOK'
    <3>1. WriteStatus(o, "PENDING") /\ TakeCoupon(o)
      BY <1>5 DEF CreateCommit
    <3>2. coupon' \in CouponRows /\ order' \in [Orders -> OrderRows]
          /\ history' \in [Orders -> OrderStatuses \union {"ABSENT"}]
      BY <2>1, <3>1, StatusTyped, CouponTyped DEF OrderStatuses
    <3>3. payment' \in [Orders -> PaymentStatuses \union {"ABSENT"}]
      BY <1>5, <2>1, PaymentTyped DEF CreateCommit, PaymentStatuses
    <3>4. profile' \in ProfileRows
      BY <1>5 DEF CreateCommit, TablesOK, ProfileRows
    <3> QED BY <1>5, <3>2, <3>3, <3>4 DEF CreateCommit, TablesOK, fleetVars, kitchenVars
  <2> QED BY <2>2, <2>3
<1>6. ASSUME NEW r \in Requests, UpdateStatusCommit(r) PROVE TypeOK'
  <2> DEFINE o == requests[r].order
             target == requests[r].target
  <2>1. o \in Orders /\ target \in OrderStatuses
    BY <1>6, AtOrder DEF UpdateStatusCommit, At, DriverSteps, RequestsOK, wellFormed
  <2>2. RequestsOK'
    <3>1. On("consumeRead", o) \in RequestRows /\ wellFormed(On("consumeRead", o))
      BY <2>1, OnTyped DEF PlainSteps, Steps, DriverSteps
    <3> QED BY <1>6, <3>1, IdleTyped, ContinueTyped DEF UpdateStatusCommit
  <2>3. TablesOK'
    <3>1. MoveAndSettle(o, target) /\ closeDeliveryWith(o, target)
      BY <1>6 DEF UpdateStatusCommit
    <3>2. delivery' \in [Orders -> DeliveryRows] /\ driver' \in [Drivers -> DriverRows]
      <4>1. "DELIVERED" \in DELIVERY_ACTIVE \union DELIVERY_TERMINAL
        BY DEF DELIVERY_TERMINAL
      <4>2. delivery \in [Orders -> DeliveryRows] /\ driver \in [Drivers -> DriverRows]
        BY DEF TablesOK
      <4>3. CASE target = "DELIVERED" /\ delivery[o].status \in DELIVERY_ACTIVE
        <5>1. delivery' \in [Orders -> DeliveryRows]
          BY <2>1, <3>1, <4>1, <4>3, DeliveryTyped DEF closeDeliveryWith
        <5>2. driver' = [d \in Drivers |-> IF d = delivery[o].driver
                            THEN [driver[d] EXCEPT !.available = TRUE] ELSE driver[d]]
          BY <3>1, <4>3 DEF closeDeliveryWith
        <5> QED BY <5>1, <5>2, FreedTyped
      <4>4. CASE ~ (target = "DELIVERED" /\ delivery[o].status \in DELIVERY_ACTIVE)
        BY <3>1, <4>2, <4>4 DEF closeDeliveryWith, fleetVars
      <4> QED BY <4>3, <4>4
    <3> QED BY <1>6, <2>1, <3>1, <3>2, MoveTyped DEF UpdateStatusCommit, TablesOK, kitchenVars
  <2> QED BY <2>2, <2>3
<1>7. ASSUME NEW r \in Requests, CancelCommit(r) PROVE TypeOK'
  <2> DEFINE o == requests[r].order
  <2>1. o \in Orders
    BY <1>7, AtOrder DEF CancelCommit, At, DriverSteps
  <2>2. RequestsOK'
    BY <1>7, FinishTyped DEF CancelCommit
  <2>3. TablesOK'
    <3>1. CloseOrder(o, "PERSON") /\ ReturnCoupon(o) /\ CountCancelled(o, 1)
      BY <1>7 DEF CancelCommit
    <3>2. /\ order' \in [Orders -> OrderRows]
          /\ history' \in [Orders -> OrderStatuses \union {"ABSENT"}]
          /\ coupon' \in CouponRows /\ profile' \in ProfileRows
      BY <2>1, <3>1, CloseTyped, CouponTyped, CountTyped DEF Reasons
    <3>3. delivery' \in [Orders -> DeliveryRows] /\ driver' \in [Drivers -> DriverRows]
      <4>1. "FAILED" \in DELIVERY_ACTIVE \union DELIVERY_TERMINAL
        BY DEF DELIVERY_TERMINAL
      <4>2. delivery \in [Orders -> DeliveryRows] /\ driver \in [Drivers -> DriverRows]
        BY DEF TablesOK
      <4>3. CASE "delivery" \in requests[r].seen
        <5>1. delivery' \in [Orders -> DeliveryRows]
          BY <1>7, <2>1, <4>1, <4>3, DeliveryTyped DEF CancelCommit
        <5>2. driver' = [d \in Drivers |-> IF d = requests[r].driver
                            THEN [driver[d] EXCEPT !.available = TRUE] ELSE driver[d]]
          BY <1>7, <4>3 DEF CancelCommit
        <5> QED BY <5>1, <5>2, FreedTyped
      <4>4. CASE "delivery" \notin requests[r].seen
        BY <1>7, <4>2, <4>4 DEF CancelCommit, fleetVars
      <4> QED BY <4>3, <4>4
    <3>4. payment' \in [Orders -> PaymentStatuses \union {"ABSENT"}]
      BY <2>1, <1>7, PaymentTyped DEF CancelCommit, TablesOK, PaymentStatuses
    <3> QED BY <1>7, <3>2, <3>3, <3>4 DEF CancelCommit, TablesOK, kitchenVars
  <2> QED BY <2>2, <2>3
<1>8. ASSUME NEW r \in Requests, ConsumeRead(r) PROVE TypeOK'
  <2>1. requests[r].next = "consumeRead" /\ "consumeWrite" \in PlainSteps
    BY <1>8 DEF ConsumeRead, At, PlainSteps, Steps, DriverSteps
  <2>2. RequestsOK'
    <3>1. /\ [requests[r] EXCEPT !.next = "consumeWrite"] \in RequestRows
          /\ wellFormed([requests[r] EXCEPT !.next = "consumeWrite"])
      BY <2>1, StepTyped DEF DriverSteps, Targets
    <3> QED BY <1>8, <2>1, <3>1, ContinueTyped, ReturnTyped DEF ConsumeRead
  <2> QED BY <1>8, <2>2, SameTables DEF ConsumeRead
<1>9. ASSUME NEW r \in Requests, ConsumeWrite(r) PROVE TypeOK'
  <2>1. requests[r].order \in Orders
    BY <1>9, AtOrder DEF ConsumeWrite, At, DriverSteps
  <2>2. RequestsOK'
    BY <1>9, ReturnTyped DEF ConsumeWrite, At
  <2>3. TablesOK'
    <3>1. order' \in [Orders -> OrderRows]
      <4>1. order \in [Orders -> OrderRows]
        BY DEF TablesOK
      <4>2. [order[requests[r].order] EXCEPT !.consumed = TRUE] \in OrderRows
        BY <2>1, <4>1 DEF OrderRows
      <4> QED BY <1>9, <2>1, <4>1, <4>2 DEF ConsumeWrite
    <3>2. deducted' \in [Orders -> Nat]
      BY <1>9, <2>1 DEF ConsumeWrite, TablesOK
    <3> QED BY <1>9, <3>1, <3>2 DEF ConsumeWrite, TablesOK, moneyVars, ledgerVars, fleetVars
  <2> QED BY <2>2, <2>3
<1>10. ASSUME NEW r \in Requests, SystemRead(r) PROVE TypeOK'
  <2> DEFINE row == [requests[r] EXCEPT !.next = "systemCommit"]
  <2>1. row \in RequestRows /\ wellFormed(row)
    BY <1>10 DEF SystemRead, At, RequestsOK, RequestRows, wellFormed, Steps, DriverSteps
  <2>2. RequestsOK'
    BY <1>10, <2>1, ContinueTyped, FinishTyped DEF SystemRead
  <2> QED BY <1>10, <2>2, SameTables DEF SystemRead
<1>11. ASSUME NEW r \in Requests, SystemCommit(r) PROVE TypeOK'
  <2> DEFINE o == requests[r].order
             target == requests[r].target
  <2>1. o \in Orders /\ target \in OrderStatuses
    BY <1>11, AtOrder DEF SystemCommit, At, DriverSteps, RequestsOK, wellFormed
  <2>2. RequestsOK'
    BY <1>11, FinishTyped DEF SystemCommit
  <2>3. MoveAndSettle(o, target)
    BY <1>11 DEF SystemCommit
  <2>4. TablesOK'
    BY <1>11, <2>1, <2>3, MoveTyped DEF SystemCommit, TablesOK, fleetVars, kitchenVars
  <2> QED BY <2>2, <2>4
<1>12. ASSUME NEW o \in Orders, ExpireOne(o) PROVE TypeOK'
  <2>1. CloseOrder(o, "EXPIRY") /\ ReturnCoupon(o) /\ CountCancelled(o, 1)
    BY <1>12 DEF ExpireOne
  <2>2. /\ order' \in [Orders -> OrderRows]
        /\ history' \in [Orders -> OrderStatuses \union {"ABSENT"}]
        /\ coupon' \in CouponRows /\ profile' \in ProfileRows
    BY <2>1, CloseTyped, CouponTyped, CountTyped DEF Reasons
  <2>3. payment' \in [Orders -> PaymentStatuses \union {"ABSENT"}]
    BY <1>12 DEF ExpireOne, TablesOK, PaymentStatuses
  <2>4. TablesOK'
    BY <1>12, <2>2, <2>3 DEF ExpireOne, TablesOK, fleetVars, kitchenVars
  <2> QED BY <1>12, <2>4, SameRequests DEF ExpireOne
<1>13. ASSUME NEW o \in Orders, Age(o) PROVE TypeOK'
  <2>1. TablesOK'
    BY <1>13 DEF Age, TablesOK, OrderRows, moneyVars, ledgerVars, fleetVars, kitchenVars
  <2> QED BY <1>13, <2>1, SameRequests DEF Age
<1>14. ASSUME ExpireSelect PROVE TypeOK'
  <2>1. TablesOK'
    BY <1>14 DEF ExpireSelect, TablesOK, orderVars, moneyVars, ledgerVars, fleetVars, kitchenVars
  <2>2. RequestsOK'
    BY <1>14, SameRequests DEF ExpireSelect
  <2> QED BY <2>1, <2>2
<1> QED BY <1>1, <1>2, <1>3, <1>4, <1>5, <1>6, <1>7, <1>8, <1>9, <1>10, <1>11, <1>12,
           <1>13, <1>14 DEF OrdersNext

\* Every action of the payments service, and the operator, preserves TypeOK.
LEMMA PaymentsType ==
  ASSUME TypeOK, PaymentsNext
  PROVE  TypeOK'
<1> USE DEF TypeOK
<1>1. ASSUME NEW r \in Requests, NEW o \in Orders, InitiateRead(r, o) PROVE TypeOK'
  <2>1. RequestsOK'
    <3>1. On("initiateWrite", o) \in RequestRows /\ wellFormed(On("initiateWrite", o))
      BY OnTyped DEF PlainSteps, Steps, DriverSteps
    <3> QED BY <1>1, <3>1, BeginTyped DEF InitiateRead
  <2>2. operator' \in [Orders -> OperatorRows]
    BY <1>1 DEF InitiateRead, TablesOK, OperatorRows
  <2> QED BY <1>1, <2>1, <2>2 DEF InitiateRead, TablesOK, orderVars, moneyVars, ledgerVars,
                                  fleetVars, kitchenVars
<1>2. ASSUME NEW r \in Requests, InitiateWrite(r) PROVE TypeOK'
  <2>1. requests[r].order \in Orders
    BY <1>2, AtOrder DEF InitiateWrite, At, DriverSteps
  <2>2. RequestsOK'
    <3>1. /\ On("initiateCopy", requests[r].order) \in RequestRows
          /\ wellFormed(On("initiateCopy", requests[r].order))
      BY <2>1, OnTyped DEF PlainSteps, Steps, DriverSteps
    <3> QED BY <1>2, <3>1, ContinueTyped DEF InitiateWrite
  <2>3. payment' \in [Orders -> PaymentStatuses \union {"ABSENT"}]
    BY <1>2, <2>1, PaymentTyped DEF InitiateWrite, PaymentStatuses
  <2> QED BY <1>2, <2>2, <2>3 DEF InitiateWrite, TablesOK, orderVars, ledgerVars,
                                  fleetVars, kitchenVars
<1>3. ASSUME NEW r \in Requests, InitiateCopy(r) PROVE TypeOK'
  <2>1. requests[r].order \in Orders
    BY <1>3, AtOrder DEF InitiateCopy, At, DriverSteps
  <2>2. RequestsOK'
    BY <1>3, FinishTyped DEF InitiateCopy
  <2>3. order' \in [Orders -> OrderRows]
    BY <1>3, <2>1, CopyTyped DEF InitiateCopy, PaymentStatuses
  <2> QED BY <1>3, <2>2, <2>3 DEF InitiateCopy, TablesOK, moneyVars, ledgerVars,
                                  fleetVars, kitchenVars
<1>4. ASSUME NEW r \in Requests, NEW o \in Orders, Confirm(r, o) PROVE TypeOK'
  <2>1. On("confirmTx", o) \in RequestRows /\ wellFormed(On("confirmTx", o))
    BY OnTyped DEF PlainSteps, Steps, DriverSteps
  <2> QED BY <1>4, <2>1, BeginTyped, SameTables DEF Confirm
<1>5. ASSUME NEW r \in Requests, ConfirmRead(r) PROVE TypeOK'
  <2>1. /\ [requests[r] EXCEPT !.next = "confirmTx"] \in RequestRows
        /\ wellFormed([requests[r] EXCEPT !.next = "confirmTx"])
    BY <1>5, StepTyped DEF ConfirmRead, At, PlainSteps, Steps, DriverSteps, Targets
  <2> QED BY <1>5, <2>1, ContinueTyped, FinishTyped, SameTables DEF ConfirmRead
<1>6. ASSUME NEW r \in Requests, ConfirmTx(r) PROVE TypeOK'
  <2> DEFINE annulee == order[requests[r].order].status = "CANCELLED"
             retablir == annulee /\ cancelledForNonPayment(order[requests[r].order].reason)
             seen == (IF annulee THEN {"cancelled"} ELSE {})
                       \union (IF retablir THEN {"revivable"} ELSE {})
             row == [requests[r] EXCEPT !.next = "confirmCommit", !.seen = seen]
  <2>1. seen \in SUBSET Facts
    BY DEF Facts
  <2>2. Continue(r, row) /\ requests[r].next = "confirmTx" /\ UNCHANGED tables
    BY <1>6 DEF ConfirmTx, At
  <2> HIDE DEF seen
  <2>3. row \in RequestRows /\ wellFormed(row)
    BY <2>1, <2>2, StepTyped DEF PlainSteps, Steps, DriverSteps, Targets
  <2> QED BY <2>2, <2>3, ContinueTyped, SameTables
<1>7. ASSUME NEW r \in Requests, ConfirmCommit(r) PROVE TypeOK'
  <2> DEFINE o == requests[r].order
  <2>1. o \in Orders /\ requests[r].next = "confirmCommit"
    BY <1>7, AtOrder DEF ConfirmCommit, At, DriverSteps
  <2>2. RequestsOK'
    <3>1. /\ [requests[r] EXCEPT !.next = "announce", !.seen = {}] \in RequestRows
          /\ wellFormed([requests[r] EXCEPT !.next = "announce", !.seen = {}])
      BY <2>1, StepTyped DEF PlainSteps, Steps, DriverSteps, Targets
    <3> QED BY <1>7, <2>1, <3>1, ContinueTyped, ReturnTyped DEF ConfirmCommit
  <2>3. /\ payment' \in [Orders -> PaymentStatuses \union {"ABSENT"}]
        /\ everPaid' \in [Orders -> BOOLEAN]
    <3>1. payment' \in [Orders -> PaymentStatuses \union {"ABSENT"}]
      BY <1>7, <2>1, PaymentTyped DEF ConfirmCommit, PaymentStatuses
    <3>2. everPaid' \in [Orders -> BOOLEAN]
      BY <1>7, <2>1 DEF ConfirmCommit, TablesOK
    <3> QED BY <3>1, <3>2
  <2>4. /\ order' \in [Orders -> OrderRows]
        /\ history' \in [Orders -> OrderStatuses \union {"ABSENT"}]
        /\ coupon' \in CouponRows /\ profile' \in ProfileRows
    <3>1. CASE "revivable" \in requests[r].seen
      <4>1. Retablir(o)
        BY <1>7, <3>1 DEF ConfirmCommit
      <4>2. "PAID" \in PaymentStatuses /\ "PENDING" \in OrderStatuses /\ "NONE" \in Reasons
        BY DEF PaymentStatuses, OrderStatuses, Reasons
      <4>3. order' \in [Orders -> OrderRows]
        BY <2>1, <4>1, <4>2, RowTyped DEF Retablir, TablesOK
      <4>4. history' \in [Orders -> OrderStatuses \union {"ABSENT"}]
        BY <2>1, <4>1, <4>2 DEF Retablir, TablesOK
      <4> QED BY <2>1, <4>1, <4>3, <4>4, CouponTyped, CountTyped DEF Retablir
    <3>2. CASE "revivable" \notin requests[r].seen
      <4>1. order' \in [Orders -> OrderRows]
        BY <1>7, <2>1, <3>2, CopyTyped DEF ConfirmCommit, PaymentStatuses
      <4> QED BY <1>7, <3>2, <4>1 DEF ConfirmCommit, TablesOK, ledgerVars
    <3> QED BY <3>1, <3>2
  <2> QED BY <1>7, <2>2, <2>3, <2>4 DEF ConfirmCommit, TablesOK, fleetVars, kitchenVars
<1>8. ASSUME NEW r \in Requests, Announce(r) PROVE TypeOK'
  <2>1. requests[r].order \in Orders
    BY <1>8, AtOrder DEF Announce, At, DriverSteps
  <2>2. RequestsOK'
    BY <1>8, ReturnTyped DEF Announce, At
  <2>3. announced' \in [Orders -> BOOLEAN]
    BY <1>8, <2>1 DEF Announce, TablesOK
  <2> QED BY <1>8, <2>2, <2>3 DEF Announce, TablesOK, orderVars, moneyVars, ledgerVars, fleetVars
<1>9. ASSUME NEW r \in Requests, NEW o \in Orders, MarkFailed(r, o) PROVE TypeOK'
  <2>1. On("failCommit", o) \in RequestRows /\ wellFormed(On("failCommit", o))
    BY OnTyped DEF PlainSteps, Steps, DriverSteps
  <2> QED BY <1>9, <2>1, BeginTyped, SameTables DEF MarkFailed
<1>10. ASSUME NEW r \in Requests, FailCommit(r) PROVE TypeOK'
  <2>1. requests[r].order \in Orders
    BY <1>10, AtOrder DEF FailCommit, At, DriverSteps
  <2>2. RequestsOK'
    BY <1>10, ReturnTyped DEF FailCommit, At
  <2>3. order' \in [Orders -> OrderRows]
    BY <1>10, <2>1, CopyTyped DEF FailCommit, PaymentStatuses
  <2>4. payment' \in [Orders -> PaymentStatuses \union {"ABSENT"}]
    BY <1>10, <2>1, PaymentTyped DEF FailCommit, PaymentStatuses
  <2> QED BY <1>10, <2>2, <2>3, <2>4 DEF FailCommit, TablesOK, ledgerVars, fleetVars, kitchenVars
<1>11. ASSUME NEW r \in Requests, NEW o \in Orders, RefundRead(r, o) PROVE TypeOK'
  <2>1. On("refundCommit", o) \in RequestRows /\ wellFormed(On("refundCommit", o))
    BY OnTyped DEF PlainSteps, Steps, DriverSteps
  <2> QED BY <1>11, <2>1, BeginTyped, SameTables DEF RefundRead
<1>12. ASSUME NEW r \in Requests, RefundCommit(r) PROVE TypeOK'
  <2>1. requests[r].order \in Orders
    BY <1>12, AtOrder DEF RefundCommit, At, DriverSteps
  <2>2. RequestsOK'
    BY <1>12, FinishTyped DEF RefundCommit
  <2>3. order' \in [Orders -> OrderRows]
    BY <1>12, <2>1, CopyTyped DEF RefundCommit, PaymentStatuses
  <2>4. payment' \in [Orders -> PaymentStatuses \union {"ABSENT"}]
    BY <1>12, <2>1, PaymentTyped DEF RefundCommit, PaymentStatuses
  <2>5. profile' \in ProfileRows
    BY <1>12 DEF RefundCommit, TablesOK, ProfileRows
  <2> QED BY <1>12, <2>2, <2>3, <2>4, <2>5 DEF RefundCommit, TablesOK, fleetVars, kitchenVars
<1>13. ASSUME NEW r \in Requests, NEW o \in Orders, Abandon(r, o) PROVE TypeOK'
  <2>1. /\ [On("reconcile", o) EXCEPT !.back = "abandonRead"] \in RequestRows
        /\ wellFormed([On("reconcile", o) EXCEPT !.back = "abandonRead"])
    BY DEF On, Idle, RequestRows, Steps, Callers, Targets, wellFormed, DriverSteps
  <2> QED BY <1>13, <2>1, BeginTyped, SameTables DEF Abandon
<1>14. ASSUME NEW r \in Requests, AbandonRead(r) PROVE TypeOK'
  <2>1. requests[r].order \in Orders
    BY <1>14, AtOrder DEF AbandonRead, At, DriverSteps
  <2>2. \A step \in {"abandonTx", "reconcile"} :
          /\ On(step, requests[r].order) \in RequestRows
          /\ wellFormed(On(step, requests[r].order))
    BY <2>1, OnTyped DEF PlainSteps, Steps, DriverSteps
  <2> QED BY <1>14, <2>2, ContinueTyped, SameTables DEF AbandonRead
<1>15. ASSUME NEW r \in Requests, AbandonTx(r) PROVE TypeOK'
  <2> DEFINE o == requests[r].order
             seen == IF order[o].status = "PENDING" THEN {"pending"} ELSE {}
             row == [On("abandonCommit", o) EXCEPT !.seen = seen]
  <2>1. o \in Orders
    BY <1>15, AtOrder DEF AbandonTx, At, DriverSteps
  <2>2. seen \in SUBSET Facts
    BY DEF Facts
  <2>3. Continue(r, row) /\ UNCHANGED tables
    BY <1>15 DEF AbandonTx
  <2> HIDE DEF seen
  <2>4. row \in RequestRows /\ wellFormed(row)
    BY <2>1, <2>2 DEF On, Idle, RequestRows, Steps, Callers, Targets, wellFormed, DriverSteps
  <2> QED BY <2>3, <2>4, ContinueTyped, SameTables
<1>16. ASSUME NEW r \in Requests, AbandonCommit(r) PROVE TypeOK'
  <2> DEFINE o == requests[r].order
  <2>1. o \in Orders
    BY <1>16, AtOrder DEF AbandonCommit, At, DriverSteps
  <2>2. RequestsOK'
    BY <1>16, FinishTyped DEF AbandonCommit
  <2>3. payment' \in [Orders -> PaymentStatuses \union {"ABSENT"}]
    BY <1>16, <2>1, PaymentTyped DEF AbandonCommit, PaymentStatuses
  <2>4. /\ order' \in [Orders -> OrderRows]
        /\ history' \in [Orders -> OrderStatuses \union {"ABSENT"}]
        /\ coupon' \in CouponRows /\ profile' \in ProfileRows
    <3>1. CASE "pending" \in requests[r].seen
      <4>1. "FAILED" \in PaymentStatuses /\ "CANCELLED" \in OrderStatuses /\ "ABANDON" \in Reasons
        BY DEF PaymentStatuses, OrderStatuses, Reasons
      <4>2. order' \in [Orders -> OrderRows]
        <5>1. order \in [Orders -> OrderRows]
          BY DEF TablesOK
        <5>2. order' = [order EXCEPT ![o] = [order[o] EXCEPT !.status = "CANCELLED",
                                       !.reason = "ABANDON", !.paymentStatus = "FAILED"]]
          BY <1>16, <2>1, <3>1, <5>1 DEF AbandonCommit, OrderRows
        <5> QED BY <2>1, <4>1, <5>1, <5>2, RowTyped
      <4>3. history' \in [Orders -> OrderStatuses \union {"ABSENT"}]
        BY <1>16, <2>1, <3>1, <4>1 DEF AbandonCommit, TablesOK
      <4>4. ReturnCoupon(o) /\ CountCancelled(o, 1)
        BY <1>16, <3>1 DEF AbandonCommit
      <4> QED BY <2>1, <4>2, <4>3, <4>4, CouponTyped, CountTyped
    <3>2. CASE "pending" \notin requests[r].seen
      <4>1. order' \in [Orders -> OrderRows]
        BY <1>16, <2>1, <3>2, CopyTyped DEF AbandonCommit, PaymentStatuses
      <4> QED BY <1>16, <3>2, <4>1 DEF AbandonCommit, TablesOK, ledgerVars
    <3> QED BY <3>1, <3>2
  <2> QED BY <1>16, <2>2, <2>3, <2>4 DEF AbandonCommit, TablesOK, fleetVars, kitchenVars
<1>17. ASSUME NEW r \in Requests, NEW o \in Orders, FindForOrder(r, o) PROVE TypeOK'
  <2>1. On("reconcile", o) \in RequestRows /\ wellFormed(On("reconcile", o))
    BY OnTyped DEF PlainSteps, Steps, DriverSteps
  <2> QED BY <1>17, <2>1, BeginTyped, SameTables DEF FindForOrder
<1>18. ASSUME NEW r \in Requests, Reconcile(r) PROVE TypeOK'
  <2>1. requests[r].next = "reconcile"
    BY <1>18 DEF Reconcile, At
  <2>2. /\ [requests[r] EXCEPT !.next = "ask"] \in RequestRows
        /\ wellFormed([requests[r] EXCEPT !.next = "ask"])
    BY <2>1, StepTyped DEF PlainSteps, Steps, DriverSteps, Targets
  <2> QED BY <1>18, <2>1, <2>2, ContinueTyped, ReturnTyped, SameTables DEF Reconcile
<1>19. ASSUME NEW r \in Requests, Ask(r) PROVE TypeOK'
  <2> DEFINE state == operator[requests[r].order].state
             row == [requests[r] EXCEPT !.next = "callback", !.target = state]
  <2>1. requests[r].next = "ask" /\ UNCHANGED tables
    BY <1>19 DEF Ask, At
  <2>2. state \in Outcomes => row \in RequestRows /\ wellFormed(row)
    BY <2>1, StepTyped DEF PlainSteps, Steps, DriverSteps, Targets
  <2>3. Return(r) \/ (state \in Outcomes /\ Continue(r, row))
    BY <1>19 DEF Ask
  <2> QED BY <2>1, <2>2, <2>3, ContinueTyped, ReturnTyped, SameTables
<1>20. ASSUME NEW r \in Requests, NEW o \in Orders, NEW outcome \in Outcomes,
              OperatorCalls(r, o, outcome)
       PROVE  TypeOK'
  <2>1. /\ Towards("callback", o, outcome) \in RequestRows
        /\ wellFormed(Towards("callback", o, outcome))
    BY DEF Towards, On, Idle, RequestRows, Steps, Callers, Targets, wellFormed, DriverSteps
  <2> QED BY <1>20, <2>1, BeginTyped, SameTables DEF OperatorCalls
<1>21. ASSUME NEW r \in Requests, ApplyCallback(r) PROVE TypeOK'
  <2> DEFINE then == calledBack(requests[r].target, payment[requests[r].order])
             row == [requests[r] EXCEPT !.next = then, !.target = "none"]
  <2>1. requests[r].next = "callback" /\ UNCHANGED tables
    BY <1>21 DEF ApplyCallback, At
  <2>2. then \in {"nothing", "confirmRead", "failCommit"}
    BY DEF calledBack
  <2>3. (then = "nothing" /\ Return(r)) \/ (then # "nothing" /\ Continue(r, row))
    BY <1>21 DEF ApplyCallback
  <2> HIDE DEF then
  <2>4. then # "nothing" => row \in RequestRows /\ wellFormed(row)
    BY <2>1, <2>2, StepTyped DEF PlainSteps, Steps, DriverSteps, Targets
  <2> QED BY <2>1, <2>3, <2>4, ContinueTyped, ReturnTyped, SameTables
<1>22. ASSUME NEW o \in Orders, NEW outcome \in Outcomes, OperatorDecides(o, outcome)
       PROVE  TypeOK'
  <2>1. operator' \in [Orders -> OperatorRows]
    BY <1>22 DEF OperatorDecides, TablesOK, OperatorRows
  <2>2. RequestsOK'
    BY <1>22, SameRequests DEF OperatorDecides
  <2> QED BY <1>22, <2>1, <2>2 DEF OperatorDecides, TablesOK, orderVars, moneyVars, ledgerVars,
                                   fleetVars, kitchenVars
<1> QED BY <1>1, <1>2, <1>3, <1>4, <1>5, <1>6, <1>7, <1>8, <1>9, <1>10, <1>11, <1>12,
           <1>13, <1>14, <1>15, <1>16, <1>17, <1>18, <1>19, <1>20, <1>21, <1>22
        DEF PaymentsNext

\* A row read for a later commit: what it names must be typed, whatever its step.
LEMMA RowOf ==
  ASSUME NEW o \in Orders, NEW d \in Drivers \union {NoDriver},
         NEW previous \in Drivers \union {NoDriver}, NEW seen \in SUBSET Facts,
         NEW target \in DELIVERY_ACTIVE \union DELIVERY_TERMINAL
  PROVE  /\ [Towards("moveCommit", o, target) EXCEPT !.driver = d] \in RequestRows
         /\ wellFormed([Towards("moveCommit", o, target) EXCEPT !.driver = d])
         /\ [Towards("moveCommit", o, target) EXCEPT !.driver = d, !.back = "completeRead"]
              \in RequestRows
         /\ wellFormed([Towards("moveCommit", o, target) EXCEPT !.driver = d,
                                                               !.back = "completeRead"])
         /\ [On("declineCommit", o) EXCEPT !.driver = d] \in RequestRows
         /\ [On("assignCommit", o) EXCEPT !.driver = d, !.previous = previous, !.seen = seen]
              \in RequestRows
         /\ d \in Drivers =>
              /\ wellFormed([On("declineCommit", o) EXCEPT !.driver = d])
              /\ wellFormed([On("assignCommit", o) EXCEPT !.driver = d, !.previous = previous,
                                                         !.seen = seen])
<1>1. /\ [Towards("moveCommit", o, target) EXCEPT !.driver = d] \in RequestRows
      /\ wellFormed([Towards("moveCommit", o, target) EXCEPT !.driver = d])
  BY DEF Towards, On, Idle, RequestRows, Steps, Callers, Targets, wellFormed, DriverSteps
<1>2. /\ [Towards("moveCommit", o, target) EXCEPT !.driver = d, !.back = "completeRead"]
            \in RequestRows
      /\ wellFormed([Towards("moveCommit", o, target) EXCEPT !.driver = d,
                                                            !.back = "completeRead"])
  BY DEF Towards, On, Idle, RequestRows, Steps, Callers, Targets, wellFormed, DriverSteps
<1>3. /\ [On("declineCommit", o) EXCEPT !.driver = d] \in RequestRows
      /\ d \in Drivers => wellFormed([On("declineCommit", o) EXCEPT !.driver = d])
  BY DEF On, Idle, RequestRows, Steps, Callers, Targets, wellFormed, DriverSteps
<1>4. /\ [On("assignCommit", o) EXCEPT !.driver = d, !.previous = previous, !.seen = seen]
            \in RequestRows
      /\ d \in Drivers =>
           wellFormed([On("assignCommit", o) EXCEPT !.driver = d, !.previous = previous,
                                                    !.seen = seen])
  BY DEF On, Idle, RequestRows, Steps, Callers, Targets, wellFormed, DriverSteps
<1> QED BY <1>1, <1>2, <1>3, <1>4

\* Deducing a driver's availability keeps the fleet typed.
LEMMA RefreshedTyped ==
  ASSUME NEW drivers \in [Drivers -> DriverRows], NEW d \in Drivers \union {NoDriver},
         NEW deliveries
  PROVE  /\ refreshedIfAny(d, drivers, deliveries) \in [Drivers -> DriverRows]
         /\ d \in Drivers => refreshed(d, drivers, deliveries) \in [Drivers -> DriverRows]
<1>1. d \in Drivers => refreshed(d, drivers, deliveries) \in [Drivers -> DriverRows]
  BY DEF refreshed, DriverRows
<1> QED BY <1>1 DEF refreshedIfAny

\* The move of a delivery, begun by any of its three routes, is typed.
LEMMA BeginMoveTyped ==
  ASSUME TypeOK, NEW r \in Requests, NEW op, NEW o \in Orders,
         NEW target \in DELIVERY_ACTIVE \union DELIVERY_TERMINAL, BeginMove(r, op, o, target)
  PROVE  TypeOK'
<1>1. delivery[o].driver \in Drivers \union {NoDriver}
  BY DEF TypeOK, TablesOK, DeliveryRows
<1>2. /\ [Towards("moveCommit", o, target) EXCEPT !.driver = delivery[o].driver] \in RequestRows
      /\ wellFormed([Towards("moveCommit", o, target) EXCEPT !.driver = delivery[o].driver])
  BY <1>1, RowOf DEF Facts
<1> QED BY <1>2, BeginTyped, SameTables DEF BeginMove, TypeOK

\* Every action of the deliveries and drivers services preserves TypeOK.
LEMMA DeliveriesType ==
  ASSUME TypeOK, DeliveriesNext
  PROVE  TypeOK'
<1> USE DEF TypeOK
<1>0. /\ delivery \in [Orders -> DeliveryRows] /\ driver \in [Drivers -> DriverRows]
      /\ \A o \in Orders : delivery[o].driver \in Drivers \union {NoDriver}
  BY DEF TablesOK, DeliveryRows
<1>1. ASSUME NEW r \in Requests, NEW o \in Orders, NEW d \in Drivers, AssignRead(r, o, d)
      PROVE  TypeOK'
  <2> DEFINE seen == (IF delivery[o].status # "ABSENT" THEN {"delivery"} ELSE {})
                       \union (IF order[o].status = "READY" THEN {"ready"} ELSE {})
             row == [On("assignCommit", o) EXCEPT !.driver = d,
                       !.previous = delivery[o].driver, !.seen = seen]
  <2>1. seen \in SUBSET Facts
    BY DEF Facts
  <2>2. Begin(r, "assign", row) /\ UNCHANGED tables
    BY <1>1 DEF AssignRead
  <2> HIDE DEF seen
  <2>3. row \in RequestRows /\ wellFormed(row)
    BY <1>0, <2>1, RowOf DEF DELIVERY_TERMINAL
  <2> QED BY <2>2, <2>3, BeginTyped, SameTables
<1>2. ASSUME NEW r \in Requests, NEW o \in Orders,
             NEW target \in DELIVERY_ACTIVE \union DELIVERY_TERMINAL,
             Advance(r, o, target) \/ UpdateStatusByStaff(r, o, target)
      PROVE  TypeOK'
  BY <1>2, BeginMoveTyped DEF Advance, UpdateStatusByStaff
<1>3. ASSUME NEW r \in Requests, NEW o \in Orders, Fail(r, o) PROVE TypeOK'
  BY <1>3, BeginMoveTyped DEF Fail, DELIVERY_TERMINAL
<1>4. ASSUME NEW r \in Requests, NEW o \in Orders, Complete(r, o) PROVE TypeOK'
  <2> DEFINE row == [Towards("moveCommit", o, "ARRIVED_AT_CUSTOMER") EXCEPT
                       !.driver = delivery[o].driver, !.back = "completeRead"]
  <2>1. On("completeRead", o) \in RequestRows /\ wellFormed(On("completeRead", o))
    BY OnTyped DEF PlainSteps, Steps, DriverSteps
  <2>2. row \in RequestRows /\ wellFormed(row)
    BY <1>0, RowOf DEF DELIVERY_ACTIVE, Facts
  <2>3. /\ Begin(r, "complete", On("completeRead", o)) \/ Begin(r, "complete", row)
        /\ UNCHANGED tables
    BY <1>4 DEF Complete
  <2> QED BY <2>1, <2>2, <2>3, BeginTyped, SameTables
<1>5. ASSUME NEW r \in Requests, NEW o \in Orders, DeclineRead(r, o) PROVE TypeOK'
  <2> DEFINE row == [On("declineCommit", o) EXCEPT !.driver = delivery[o].driver]
  <2>1. delivery[o].driver \in Drivers /\ Begin(r, "decline", row) /\ UNCHANGED tables
    BY <1>5 DEF DeclineRead, calledBy
  <2>2. row \in RequestRows /\ wellFormed(row)
    BY <2>1, RowOf DEF DELIVERY_TERMINAL, Facts
  <2> QED BY <2>1, <2>2, BeginTyped, SameTables
<1>6. ASSUME NEW r \in Requests, NEW d \in Drivers, NEW presence \in Presences,
             UpdateAvailabilityRead(r, d, presence)
      PROVE  TypeOK'
  <2> DEFINE seen == IF activeDeliveries(delivery, d) = {} THEN {} ELSE {"active"}
             row == [Idle EXCEPT !.next = "availabilityCommit", !.driver = d,
                                 !.target = presence, !.seen = seen]
  <2>1. seen \in SUBSET Facts
    BY DEF Facts
  <2>2. Begin(r, "availability", row) /\ UNCHANGED tables
    BY <1>6 DEF UpdateAvailabilityRead
  <2> HIDE DEF seen
  <2>3. row \in RequestRows /\ wellFormed(row)
    BY <2>1 DEF Idle, RequestRows, Steps, Callers, Targets, wellFormed, DriverSteps
  <2> QED BY <2>2, <2>3, BeginTyped, SameTables
<1>7. ASSUME NEW r \in Requests, NEW d \in Drivers, NEW status \in AccountStatuses,
             SetStatusRead(r, d, status)
      PROVE  TypeOK'
  <2> DEFINE row == [Idle EXCEPT !.next = "driverStatusCommit", !.driver = d, !.target = status]
  <2>1. row \in RequestRows /\ wellFormed(row)
    BY DEF Idle, RequestRows, Steps, Callers, Targets, wellFormed, DriverSteps
  <2> QED BY <1>7, <2>1, BeginTyped, SameTables DEF SetStatusRead
<1>8. ASSUME NEW r \in Requests, AssignFails(r) PROVE TypeOK'
  BY <1>8, FinishTyped, SameTables DEF AssignFails
<1>9. ASSUME NEW r \in Requests, AssignCommit(r) PROVE TypeOK'
  <2> DEFINE o == requests[r].order
             d == requests[r].driver
             busy == [driver EXCEPT ![d].available = FALSE]
  <2>1. o \in Orders /\ d \in Drivers /\ requests[r].previous \in Drivers \union {NoDriver}
    BY <1>9, AtOrder DEF AssignCommit, At, DriverSteps, RequestsOK, wellFormed, RequestRows
  <2>2. RequestsOK'
    BY <1>9, FinishTyped DEF AssignCommit
  <2>3. delivery' \in [Orders -> DeliveryRows]
    BY <1>0, <1>9, <2>1 DEF AssignCommit, DeliveryRows, DELIVERY_ACTIVE
  <2>4. driver' \in [Drivers -> DriverRows]
    <3>1. busy \in [Drivers -> DriverRows]
      BY <1>0, <2>1 DEF DriverRows
    <3>2. driver' = refreshedIfAny(requests[r].previous, busy, delivery')
      BY <1>9 DEF AssignCommit
    <3> QED BY <2>1, <3>1, <3>2, RefreshedTyped
  <2>5. /\ order' \in [Orders -> OrderRows]
        /\ history' \in [Orders -> OrderStatuses \union {"ABSENT"}]
    BY <1>9, <2>1, StatusTyped DEF AssignCommit, orderVars, OrderStatuses, TablesOK
  <2> QED BY <1>9, <2>2, <2>3, <2>4, <2>5 DEF AssignCommit, TablesOK, moneyVars, ledgerVars,
                                             kitchenVars
<1>10. ASSUME NEW r \in Requests, MoveCommit(r) PROVE TypeOK'
  <2> DEFINE o == requests[r].order
             target == requests[r].target
  <2>1. /\ o \in Orders /\ target \in DELIVERY_ACTIVE \union DELIVERY_TERMINAL
        /\ requests[r].driver \in Drivers \union {NoDriver} /\ requests[r].next # "idle"
    BY <1>10, AtOrder DEF MoveCommit, At, DriverSteps, RequestsOK, wellFormed, RequestRows
  <2>2. RequestsOK'
    <3>1. \A goal \in {"OUT_FOR_DELIVERY", "DELIVERED"} :
            /\ Towards("systemRead", o, goal) \in RequestRows
            /\ wellFormed(Towards("systemRead", o, goal))
      BY <2>1 DEF Towards, On, Idle, RequestRows, Steps, Callers, Targets, wellFormed,
                  DriverSteps, OrderStatuses
    <3>2. \/ Continue(r, Towards("systemRead", o, "OUT_FOR_DELIVERY"))
          \/ Continue(r, Towards("systemRead", o, "DELIVERED"))
          \/ Return(r)
      BY <1>10 DEF MoveCommit
    <3> QED BY <2>1, <3>1, <3>2, ContinueTyped, ReturnTyped
  <2>3. delivery' \in [Orders -> DeliveryRows]
    BY <1>10, <2>1, DeliveryTyped DEF MoveCommit
  <2>4. driver' \in [Drivers -> DriverRows]
    BY <1>0, <1>10, <2>1, RefreshedTyped DEF MoveCommit
  <2> QED BY <1>10, <2>2, <2>3, <2>4 DEF MoveCommit, TablesOK, orderVars, moneyVars, ledgerVars,
                                        kitchenVars
<1>11. ASSUME NEW r \in Requests, CompleteRead(r) PROVE TypeOK'
  <2> DEFINE o == requests[r].order
             row == [Towards("moveCommit", o, "DELIVERED") EXCEPT !.driver = delivery[o].driver]
  <2>1. o \in Orders
    BY <1>11, AtOrder DEF CompleteRead, At, DriverSteps
  <2>2. row \in RequestRows /\ wellFormed(row)
    BY <1>0, <2>1, RowOf DEF DELIVERY_TERMINAL, Facts
  <2> QED BY <1>11, <2>2, ContinueTyped, SameTables DEF CompleteRead
<1>12. ASSUME NEW r \in Requests, DeclineCommit(r) PROVE TypeOK'
  <2> DEFINE o == requests[r].order
             d == requests[r].driver
  <2>1. o \in Orders /\ d \in Drivers
    BY <1>12, AtOrder DEF DeclineCommit, At, DriverSteps, RequestsOK, wellFormed
  <2>2. RequestsOK'
    BY <1>12, FinishTyped DEF DeclineCommit
  <2>3. delivery' \in [Orders -> DeliveryRows]
    BY <1>0, <1>12, <2>1 DEF DeclineCommit, DeliveryRows
  <2>4. driver' \in [Drivers -> DriverRows]
    BY <1>0, <1>12, <2>1, RefreshedTyped DEF DeclineCommit
  <2>5. /\ order' \in [Orders -> OrderRows]
        /\ history' \in [Orders -> OrderStatuses \union {"ABSENT"}]
    BY <1>12, <2>1, StatusTyped DEF DeclineCommit, orderVars, OrderStatuses, TablesOK
  <2> QED BY <1>12, <2>2, <2>3, <2>4, <2>5 DEF DeclineCommit, TablesOK, moneyVars, ledgerVars,
                                              kitchenVars
<1>13. ASSUME NEW r \in Requests, UpdateAvailabilityCommit(r) PROVE TypeOK'
  <2> DEFINE d == requests[r].driver
             online == CASE requests[r].target = "ONLINE"  -> TRUE
                         [] requests[r].target = "OFFLINE" -> FALSE
                         [] OTHER                          -> driver[d].online
             available == requests[r].target \in {"ONLINE", "AVAILABLE"}
                            /\ "active" \notin requests[r].seen
  <2>1. d \in Drivers
    BY <1>13 DEF UpdateAvailabilityCommit, At, DriverSteps, RequestsOK, wellFormed
  <2>2. RequestsOK'
    BY <1>13, FinishTyped DEF UpdateAvailabilityCommit
  <2>3. online \in BOOLEAN /\ available \in BOOLEAN
    BY <1>0, <2>1 DEF DriverRows
  <2>4. driver' = [driver EXCEPT ![d] = [driver[d] EXCEPT !.online = online,
                                                         !.available = available]]
    BY <1>0, <1>13, <2>1 DEF UpdateAvailabilityCommit, DriverRows
  <2> HIDE DEF online, available
  <2>5. [driver[d] EXCEPT !.online = online, !.available = available] \in DriverRows
    BY <1>0, <2>1, <2>3 DEF DriverRows
  <2>6. driver' \in [Drivers -> DriverRows]
    BY <1>0, <2>1, <2>4, <2>5
  <2> QED BY <1>13, <2>2, <2>6 DEF UpdateAvailabilityCommit, TablesOK, orderVars, moneyVars,
                                   ledgerVars, kitchenVars
<1>14. ASSUME NEW r \in Requests, SetStatusCommit(r) PROVE TypeOK'
  <2> DEFINE d == requests[r].driver
  <2>1. d \in Drivers /\ requests[r].target \in AccountStatuses
    BY <1>14 DEF SetStatusCommit, At, DriverSteps, RequestsOK, wellFormed
  <2>2. RequestsOK'
    BY <1>14, FinishTyped DEF SetStatusCommit
  <2>3. driver' \in [Drivers -> DriverRows]
    BY <1>0, <1>14, <2>1 DEF SetStatusCommit, DriverRows
  <2> QED BY <1>14, <2>2, <2>3 DEF SetStatusCommit, TablesOK, orderVars, moneyVars, ledgerVars,
                                   kitchenVars
<1>15. ASSUME NEW stale \in SUBSET Drivers, ReleaseStaleDrivers(stale) PROVE TypeOK'
  <2>1. driver' \in [Drivers -> DriverRows]
    BY <1>0, <1>15 DEF ReleaseStaleDrivers, DriverRows
  <2>2. RequestsOK'
    BY <1>15, SameRequests DEF ReleaseStaleDrivers
  <2> QED BY <1>15, <2>1, <2>2 DEF ReleaseStaleDrivers, TablesOK, orderVars, moneyVars,
                                   ledgerVars, kitchenVars
<1> QED BY <1>1, <1>2, <1>3, <1>4, <1>5, <1>6, <1>7, <1>8, <1>9, <1>10, <1>11, <1>12,
           <1>13, <1>14, <1>15 DEF DeliveriesNext

\* A request or a cron batch that dies preserves TypeOK.
LEMMA CrashType ==
  ASSUME TypeOK, (\E r \in Requests : Abort(r)) \/ CronCrash
  PROVE  TypeOK'
<1>1. ASSUME NEW r \in Requests, Abort(r) PROVE TypeOK'
  BY <1>1, FinishTyped, SameTables DEF Abort, TypeOK
<1>2. CASE CronCrash
  BY <1>2, SameRequests DEF CronCrash, TypeOK, TablesOK, orderVars, moneyVars, ledgerVars,
                            fleetVars, kitchenVars
<1> QED BY <1>1, <1>2

\* A stuttering step preserves TypeOK.
LEMMA StutterType ==
  ASSUME TypeOK, UNCHANGED vars
  PROVE  TypeOK'
BY SameTables, SameRequests DEF TypeOK, vars, tables, orderVars, moneyVars, ledgerVars,
                                fleetVars, kitchenVars

\* Every table keeps its column types and every request holds what its next
\* step writes, whatever the number of orders, drivers and concurrent handlers.
THEOREM TypeCorrect == Spec => []TypeOK
<1>1. TypeOK /\ [Next]_vars => TypeOK'
  BY OrdersType, PaymentsType, DeliveriesType, CrashType, StutterType DEF Next
<1> QED BY InitType, <1>1, PTL DEF Spec

(***************************************************************************)
(* "Pas de cuisine sans argent": the proof that no interleaving and no     *)
(* crash lets an order settled online reach the kitchen before its money.  *)
(*                                                                         *)
(* KitchenOnlyAfterMoney is not inductive: a request that has passed the   *)
(* payment guard commits without looking again.  NothingStartedUnpaid says *)
(* why none is ever under way for an order that has not been paid, and is  *)
(* inductive together with TypeOK.                                         *)
(***************************************************************************)
\* What Begin, Continue, Finish and Return have in common: one slot is rewritten.
LEMMA SlotWritten ==
  ASSUME RequestsOK, NEW r \in Requests, NEW op, NEW row
  PROVE  /\ Begin(r, op, row) => requests' = [requests EXCEPT ![r] = row]
         /\ Continue(r, row) => requests' = [requests EXCEPT ![r] = row]
         /\ Finish(r) => requests' = [requests EXCEPT ![r] = Idle]
         /\ Return(r) => \/ requests' = [requests EXCEPT ![r] = Idle]
                         \/ requests' = [requests EXCEPT ![r] =
                              On(requests[r].back, requests[r].order)]
BY DEF Begin, Continue, Finish, Return

\* The tables the invariant reads.
moneyTables == <<order, payment, everPaid, deducted, announced, delivery>>

\* A request that writes none of them keeps the invariant if, for an unpaid order,
\* it goes on to a step before the payment guard.
LEMMA ReadKeeps ==
  ASSUME TypeOK, NothingStartedUnpaid, UNCHANGED moneyTables, NEW r \in Requests, NEW row,
         requests' = [requests EXCEPT ![r] = row],
         \A o \in Orders : unpaidYet(o) /\ row.order = o => beforeGuard(row)
  PROVE  NothingStartedUnpaid'
<1> SUFFICES ASSUME NEW o \in Orders, unpaidYet(o)'
             PROVE  /\ untouched(o)'
                    /\ \A q \in Requests : requests'[q].order = o => beforeGuard(requests'[q])
  BY DEF NothingStartedUnpaid, beforeGuard
<1>1. unpaidYet(o) /\ untouched(o)'
  BY DEF unpaidYet, untouched, NothingStartedUnpaid, moneyTables
<1>2. ASSUME NEW q \in Requests, requests'[q].order = o PROVE beforeGuard(requests'[q])
  <2>1. requests'[q] = IF q = r THEN row ELSE requests[q]
    BY DEF TypeOK, RequestsOK
  <2> QED BY <1>1, <1>2, <2>1 DEF NothingStartedUnpaid
<1> QED BY <1>1, <1>2

\* Nothing the invariant reads moved.
LEMMA SameMoneyKeeps ==
  ASSUME NothingStartedUnpaid, UNCHANGED <<moneyTables, requests>>
  PROVE  NothingStartedUnpaid'
BY DEF NothingStartedUnpaid, unpaidYet, untouched, beforeGuard, moneyTables

\* The step writes, among the tables the invariant reads, the rows of w alone.
OnlyOrder(w) ==
  \A o \in Orders \ {w} :
    /\ order'[o] = order[o] /\ payment'[o] = payment[o] /\ everPaid'[o] = everPaid[o]
    /\ deducted'[o] = deducted[o] /\ announced'[o] = announced[o]
    /\ delivery'[o] = delivery[o]

\* An order whose money has come is not unpaid again.
StaysPaid(w) == ~ unpaidYet(w) => ~ unpaidYet(w)'

\* A step that writes the rows of one order keeps the invariant if it leaves that
\* order paid, or untouched and its request before the guard.
LEMMA WriteKeeps ==
  ASSUME TypeOK, NothingStartedUnpaid, NEW r \in Requests, NEW row, NEW w \in Orders,
         requests' = [requests EXCEPT ![r] = row], row.order \in {w, NoOrder},
         OnlyOrder(w),
         unpaidYet(w)' => unpaidYet(w) /\ untouched(w)' /\ beforeGuard(row)
  PROVE  NothingStartedUnpaid'
<1> SUFFICES ASSUME NEW o \in Orders, unpaidYet(o)'
             PROVE  /\ untouched(o)'
                    /\ \A q \in Requests : requests'[q].order = o => beforeGuard(requests'[q])
  BY DEF NothingStartedUnpaid, beforeGuard
<1>1. unpaidYet(o) /\ untouched(o)'
  <2>1. CASE o = w
    BY <2>1
  <2>2. CASE o # w
    BY <2>2 DEF OnlyOrder, unpaidYet, untouched, NothingStartedUnpaid
  <2> QED BY <2>1, <2>2
<1>2. ASSUME NEW q \in Requests, requests'[q].order = o PROVE beforeGuard(requests'[q])
  <2>1. requests'[q] = IF q = r THEN row ELSE requests[q]
    BY DEF TypeOK, RequestsOK
  <2>2. q = r => o = w
    BY <1>2, <2>1, StoreAssumption DEF StoreAssumption
  <2> QED BY <1>1, <1>2, <2>1, <2>2 DEF NothingStartedUnpaid
<1> QED BY <1>1, <1>2

\* A step of the clock, the cron or the operator: no request moves.
LEMMA OutsideKeeps ==
  ASSUME TypeOK, NothingStartedUnpaid, UNCHANGED requests,
         \A o \in Orders : unpaidYet(o)' => unpaidYet(o) /\ untouched(o)'
  PROVE  NothingStartedUnpaid'
BY DEF NothingStartedUnpaid, beforeGuard

\* A step that writes no table writes none the invariant reads.
LEMMA TablesRead == UNCHANGED tables => UNCHANGED moneyTables
BY DEF tables, moneyTables, orderVars, moneyVars, fleetVars, kitchenVars

\* A request that has passed the guard serves an order that was paid.
LEMMA PastIsPaid ==
  ASSUME NothingStartedUnpaid, NEW r \in Requests, requests[r].order \in Orders,
         requests[r].next \in PastTheGuard
  PROVE  ~ unpaidYet(requests[r].order)
BY DEF NothingStartedUnpaid, beforeGuard

\* Steps before the guard, as rows of a request just arrived.
LEMMA OnBefore ==
  ASSUME NEW step \in Steps \ PastTheGuard, NEW o, NEW target
  PROVE  /\ beforeGuard(On(step, o)) /\ On(step, o).order = o
         /\ beforeGuard(Towards(step, o, target)) /\ Towards(step, o, target).order = o
         /\ beforeGuard(Idle) /\ Idle.order = NoOrder
BY DEF beforeGuard, On, Towards, Idle, PastTheGuard

\* The row a request returns to is before the guard if the request was.
LEMMA ReturnBefore ==
  ASSUME TypeOK, NEW r \in Requests, beforeGuard(requests[r]), Return(r),
         requests[r].next # "idle"
  PROVE  \E row : /\ requests' = [requests EXCEPT ![r] = row]
                  /\ row.order \in {requests[r].order, NoOrder} /\ beforeGuard(row)
<1>1. CASE requests[r].back = "idle"
  <2>1. requests' = [requests EXCEPT ![r] = Idle]
    BY <1>1 DEF Return, Finish, Continue
  <2>2. beforeGuard(Idle) /\ Idle.order = NoOrder
    BY DEF beforeGuard, Idle, PastTheGuard
  <2> QED BY <2>1, <2>2
<1>2. CASE requests[r].back # "idle"
  <2>1. requests' = [requests EXCEPT ![r] = On(requests[r].back, requests[r].order)]
    BY <1>2 DEF Return, Continue
  <2>2. requests[r].back = "abandonRead"
    BY <1>2 DEF TypeOK, RequestsOK, RequestRows, Callers, beforeGuard
  <2>3. "abandonRead" \in Steps \ PastTheGuard
    BY DEF Steps, PastTheGuard
  <2> QED BY <2>1, <2>2, <2>3, OnBefore
<1> QED BY <1>1, <1>2

\* Returning from a step past the guard: the order was paid, nothing is asked.
LEMMA ReturnPast ==
  ASSUME NEW r \in Requests, Return(r)
  PROVE  \E row : /\ requests' = [requests EXCEPT ![r] = row]
                  /\ row.order \in {requests[r].order, NoOrder}
<1>1. CASE requests[r].back = "idle"
  BY <1>1 DEF Return, Finish, Continue, Idle
<1>2. CASE requests[r].back # "idle"
  BY <1>2 DEF Return, Continue, On, Idle
<1> QED BY <1>1, <1>2

\* A request returns without having written a table of the invariant.
LEMMA ReturnKeeps ==
  ASSUME TypeOK, NothingStartedUnpaid, UNCHANGED moneyTables, NEW r \in Requests, Return(r),
         requests[r].next # "idle", requests[r].order \in Orders
  PROVE  NothingStartedUnpaid'
<1>1. CASE unpaidYet(requests[r].order)
  <2>1. beforeGuard(requests[r])
    BY <1>1 DEF NothingStartedUnpaid
  <2>2. PICK row : /\ requests' = [requests EXCEPT ![r] = row]
                   /\ row.order \in {requests[r].order, NoOrder} /\ beforeGuard(row)
    BY <2>1, ReturnBefore
  <2> QED BY <2>2, ReadKeeps
<1>2. CASE ~ unpaidYet(requests[r].order)
  <2>1. PICK row : /\ requests' = [requests EXCEPT ![r] = row]
                   /\ row.order \in {requests[r].order, NoOrder}
    BY ReturnPast
  <2> QED BY <1>2, <2>1, ReadKeeps, StoreAssumption DEF StoreAssumption
<1> QED BY <1>1, <1>2

\* Moving and settling an order touches its own rows, and never takes its money back.
LEMMA SettleKeeps ==
  ASSUME TypeOK, NEW o \in Orders, NEW target, MoveAndSettle(o, target),
         UNCHANGED <<deducted, announced>>
  PROVE  /\ StaysPaid(o)
         /\ UNCHANGED delivery => OnlyOrder(o)
         /\ (\A q \in Orders \ {o} : delivery'[q] = delivery[q]) => OnlyOrder(o)
<1> USE DEF TypeOK
<1>1. order'[o].shape = order[o].shape
  BY DEF MoveAndSettle, TablesOK, OrderRows
<1>2. \A q \in Orders \ {o} : order'[q] = order[q]
  BY DEF MoveAndSettle, TablesOK
<1>3. /\ \A q \in Orders \ {o} : payment'[q] = payment[q] /\ everPaid'[q] = everPaid[q]
      /\ everPaid[o] => everPaid'[o]
  BY DEF MoveAndSettle, TablesOK, moneyVars
<1>4. StaysPaid(o)
  BY <1>1, <1>3 DEF StaysPaid, unpaidYet
<1> QED BY <1>2, <1>3, <1>4 DEF OnlyOrder

\* Closing an order's delivery touches no other delivery.
LEMMA CloseDeliveryKeeps ==
  ASSUME TypeOK, NEW o \in Orders, NEW target, closeDeliveryWith(o, target)
  PROVE  \A q \in Orders \ {o} : delivery'[q] = delivery[q]
BY DEF closeDeliveryWith, TypeOK, TablesOK, fleetVars

\* The invariant is kept by every action of the orders service: those past the
\* guard serve paid orders, the others write nothing the kitchen would act on.
LEMMA OrdersKeep ==
  ASSUME TypeOK, NothingStartedUnpaid, OrdersNext
  PROVE  NothingStartedUnpaid'
<1> USE DEF TypeOK
<1>0. \A r \in Requests, step \in Steps \ (DriverSteps \union {"idle"}) :
        At(r, step) => requests[r].order \in Orders
  BY AtOrder DEF At
<1>a. Idle.order = NoOrder /\ NoOrder \notin Orders
  BY StoreAssumption DEF Idle, StoreAssumption
<1>1. ASSUME NEW r \in Requests, NEW o \in Orders, CreateRead(r, o)
      PROVE  NothingStartedUnpaid'
  <2>1. beforeGuard(On("createCommit", o))
    BY OnBefore DEF Steps, PastTheGuard
  <2> QED BY <1>1, <2>1, SlotWritten, TablesRead, ReadKeeps DEF CreateRead
<1>2. ASSUME NEW r \in Requests, NEW o \in Orders, PosCreate(r, o)
      PROVE  NothingStartedUnpaid'
  <2> DEFINE row == [On("consumeRead", o) EXCEPT !.back = "announce"]
  <2>1. row.order = o
    BY DEF On, Idle
  <2>2. requests' = [requests EXCEPT ![r] = row]
    BY <1>2, SlotWritten DEF PosCreate
  <2>3. ~ unpaidYet(o)'
    BY <1>2 DEF PosCreate, unpaidYet, onlineToSettle, TablesOK, OrderRows
  <2>4. OnlyOrder(o)
    BY <1>2 DEF PosCreate, OnlyOrder, TablesOK, fleetVars, kitchenVars
  <2> HIDE DEF row
  <2> QED BY <2>1, <2>2, <2>3, <2>4, WriteKeeps
<1>3. ASSUME NEW r \in Requests, NEW o \in Orders, CancelRead(r, o)
      PROVE  NothingStartedUnpaid'
  <2> DEFINE seen == (IF delivery[o].status # "ABSENT" THEN {"delivery"} ELSE {})
                       \union (IF payment[o] = "PENDING" THEN {"paymentPending"} ELSE {})
             row == [On("cancelCommit", o) EXCEPT !.driver = delivery[o].driver, !.seen = seen]
  <2>1. requests' = [requests EXCEPT ![r] = row] /\ UNCHANGED moneyTables
    BY <1>3, SlotWritten, TablesRead DEF CancelRead
  <2>2. row.order = o
    BY DEF On, Idle
  <2>3. ASSUME unpaidYet(o) PROVE beforeGuard(row)
    <3>1. "delivery" \notin seen
      BY <2>3 DEF NothingStartedUnpaid, untouched
    <3> HIDE DEF seen
    <3> QED BY <3>1 DEF beforeGuard, On, Idle, PastTheGuard
  <2> HIDE DEF row
  <2> QED BY <2>1, <2>2, <2>3, ReadKeeps
<1>4. ASSUME NEW r \in Requests, NEW o \in Orders, NEW target \in OrderStatuses,
             UpdateStatusRead(r, o, target)
      PROVE  NothingStartedUnpaid'
  <2>1. ~ unpaidYet(o)
    BY <1>4 DEF UpdateStatusRead, isUnpaidOnline, unpaidYet, NothingStartedUnpaid, untouched
  <2>2. Towards("statusCommit", o, target).order = o
    BY DEF Towards, On, Idle
  <2> QED BY <1>4, <2>1, <2>2, SlotWritten, TablesRead, ReadKeeps DEF UpdateStatusRead
<1>5. ASSUME NEW r \in Requests, CreateCommit(r) PROVE NothingStartedUnpaid'
  <2>1. PICK o \in Orders : o = requests[r].order
    BY <1>0, <1>5 DEF CreateCommit, Steps, DriverSteps
  <2> DEFINE row == IF order[o].shape.method = "COD" THEN On("announce", o) ELSE Idle
  <2>2. requests' = [requests EXCEPT ![r] = row] /\ row.order \in {o, NoOrder}
    BY <1>5, <2>1, SlotWritten DEF CreateCommit, On, Idle
  <2>3. OnlyOrder(o)
    BY <1>5, <2>1 DEF CreateCommit, WriteStatus, OnlyOrder, TablesOK, fleetVars, kitchenVars
  <2>4. /\ order'[o].shape = order[o].shape /\ order'[o].status = "PENDING"
        /\ order'[o].paymentStatus = order[o].paymentStatus
    BY <1>5, <2>1 DEF CreateCommit, WriteStatus, TablesOK, OrderRows
  <2>5. /\ payment'[o] = "PENDING" /\ everPaid' = everPaid /\ deducted' = deducted
        /\ announced' = announced /\ delivery' = delivery
    BY <1>5, <2>1 DEF CreateCommit, TablesOK, fleetVars, kitchenVars
  <2>6. ASSUME unpaidYet(o)' PROVE unpaidYet(o) /\ untouched(o)' /\ beforeGuard(row)
    <3>1. unpaidYet(o) /\ order[o].shape.method # "COD"
      BY <2>4, <2>5, <2>6 DEF unpaidYet, onlineToSettle
    <3>2. beforeGuard(row)
      BY <3>1 DEF beforeGuard, Idle, PastTheGuard
    <3>3. untouched(o)
      BY <3>1 DEF NothingStartedUnpaid
    <3> QED BY <2>4, <2>5, <3>1, <3>2, <3>3 DEF untouched
  <2> HIDE DEF row
  <2> QED BY <2>2, <2>3, <2>6, WriteKeeps
<1>6. ASSUME NEW r \in Requests, UpdateStatusCommit(r) PROVE NothingStartedUnpaid'
  <2>1. PICK o \in Orders : o = requests[r].order
    BY <1>0, <1>6 DEF UpdateStatusCommit, Steps, DriverSteps
  <2>2. ~ unpaidYet(o)
    BY <1>6, <2>1, PastIsPaid DEF UpdateStatusCommit, At, PastTheGuard
  <2>3. PICK row : /\ requests' = [requests EXCEPT ![r] = row]
                   /\ row.order \in {o, NoOrder}
    <3>1. \/ Continue(r, On("consumeRead", o)) \/ Continue(r, Idle)
      BY <1>6, <2>1 DEF UpdateStatusCommit
    <3>2. On("consumeRead", o).order = o
      BY DEF On, Idle
    <3> QED BY <1>a, <3>1, <3>2, SlotWritten
  <2>4. MoveAndSettle(o, requests[r].target) /\ closeDeliveryWith(o, requests[r].target)
        /\ UNCHANGED kitchenVars
    BY <1>6, <2>1 DEF UpdateStatusCommit
  <2>5. OnlyOrder(o) /\ StaysPaid(o)
    BY <2>4, SettleKeeps, CloseDeliveryKeeps DEF kitchenVars
  <2> QED BY <2>2, <2>3, <2>5, WriteKeeps DEF StaysPaid
<1>7. ASSUME NEW r \in Requests, CancelCommit(r) PROVE NothingStartedUnpaid'
  <2>1. PICK o \in Orders : o = requests[r].order
    BY <1>0, <1>7 DEF CancelCommit, Steps, DriverSteps
  <2>2. requests' = [requests EXCEPT ![r] = Idle]
    BY <1>7, SlotWritten DEF CancelCommit
  <2>3. OnlyOrder(o)
    BY <1>7, <2>1 DEF CancelCommit, CloseOrder, OnlyOrder, TablesOK, fleetVars, kitchenVars
  <2>4. /\ order'[o].shape = order[o].shape /\ order'[o].status = "CANCELLED"
        /\ order'[o].paymentStatus = order[o].paymentStatus
    BY <1>7, <2>1 DEF CancelCommit, CloseOrder, TablesOK, OrderRows
  <2>5. /\ payment'[o] \in {payment[o], "FAILED"} /\ everPaid' = everPaid
        /\ deducted' = deducted /\ announced' = announced
        /\ "delivery" \in requests[r].seen \/ delivery' = delivery
    BY <1>7, <2>1 DEF CancelCommit, TablesOK, fleetVars, kitchenVars
  <2>6. ASSUME unpaidYet(o)' PROVE unpaidYet(o) /\ untouched(o)' /\ beforeGuard(Idle)
    <3>1. unpaidYet(o)
      BY <2>4, <2>5, <2>6 DEF unpaidYet
    <3>2. untouched(o) /\ "delivery" \notin requests[r].seen
      BY <2>1, <3>1 DEF NothingStartedUnpaid, beforeGuard
    <3>3. beforeGuard(Idle)
      BY DEF beforeGuard, Idle, PastTheGuard
    <3> QED BY <2>4, <2>5, <3>1, <3>2, <3>3 DEF untouched
  <2> QED BY <1>a, <2>2, <2>3, <2>6, WriteKeeps
<1>8. ASSUME NEW r \in Requests, ConsumeRead(r) PROVE NothingStartedUnpaid'
  <2>1. /\ requests[r].order \in Orders /\ requests[r].next = "consumeRead"
        /\ UNCHANGED moneyTables
    BY <1>0, <1>8, TablesRead DEF ConsumeRead, At, Steps, DriverSteps
  <2>2. ~ unpaidYet(requests[r].order)
    BY <2>1, PastIsPaid DEF PastTheGuard
  <2>3. CASE Return(r)
    BY <2>1, <2>3, ReturnKeeps
  <2>4. CASE Continue(r, [requests[r] EXCEPT !.next = "consumeWrite"])
    <3> DEFINE row == [requests[r] EXCEPT !.next = "consumeWrite"]
    <3>1. row.order = requests[r].order
      BY DEF RequestsOK, RequestRows
    <3>2. requests' = [requests EXCEPT ![r] = row]
      BY <2>4, SlotWritten
    <3> HIDE DEF row
    <3> QED BY <2>1, <2>2, <3>1, <3>2, ReadKeeps
  <2> QED BY <1>8, <2>3, <2>4 DEF ConsumeRead
<1>9. ASSUME NEW r \in Requests, ConsumeWrite(r) PROVE NothingStartedUnpaid'
  <2>1. PICK o \in Orders : o = requests[r].order
    BY <1>0, <1>9 DEF ConsumeWrite, Steps, DriverSteps
  <2>2. ~ unpaidYet(o)
    BY <1>9, <2>1, PastIsPaid DEF ConsumeWrite, At, PastTheGuard
  <2>3. PICK row : /\ requests' = [requests EXCEPT ![r] = row]
                   /\ row.order \in {o, NoOrder}
    BY <1>9, <2>1, ReturnPast DEF ConsumeWrite
  <2>4. OnlyOrder(o)
    BY <1>9, <2>1 DEF ConsumeWrite, OnlyOrder, TablesOK, moneyVars, fleetVars
  <2>5. StaysPaid(o)
    BY <1>9, <2>1 DEF ConsumeWrite, StaysPaid, unpaidYet, TablesOK, OrderRows, moneyVars
  <2> QED BY <2>2, <2>3, <2>4, <2>5, WriteKeeps DEF StaysPaid
<1>10. ASSUME NEW r \in Requests, SystemRead(r) PROVE NothingStartedUnpaid'
  <2>1. /\ requests[r].order \in Orders /\ requests[r].next = "systemRead"
        /\ UNCHANGED moneyTables
    BY <1>0, <1>10, TablesRead DEF SystemRead, At, Steps, DriverSteps
  <2>2. ~ unpaidYet(requests[r].order)
    BY <2>1, PastIsPaid DEF PastTheGuard
  <2>3. PICK row : /\ requests' = [requests EXCEPT ![r] = row]
                   /\ row.order \in {requests[r].order, NoOrder}
    <3>1. [requests[r] EXCEPT !.next = "systemCommit"].order = requests[r].order
      BY DEF RequestsOK, RequestRows
    <3> QED BY <1>10, <1>a, <3>1, SlotWritten DEF SystemRead
  <2> QED BY <1>a, <2>1, <2>2, <2>3, ReadKeeps
<1>11. ASSUME NEW r \in Requests, SystemCommit(r) PROVE NothingStartedUnpaid'
  <2>1. PICK o \in Orders : o = requests[r].order
    BY <1>0, <1>11 DEF SystemCommit, Steps, DriverSteps
  <2>2. ~ unpaidYet(o)
    BY <1>11, <2>1, PastIsPaid DEF SystemCommit, At, PastTheGuard
  <2>3. requests' = [requests EXCEPT ![r] = Idle]
    BY <1>11, SlotWritten DEF SystemCommit
  <2>4. MoveAndSettle(o, requests[r].target) /\ UNCHANGED <<delivery, deducted, announced>>
    BY <1>11, <2>1 DEF SystemCommit, fleetVars, kitchenVars
  <2>5. OnlyOrder(o) /\ StaysPaid(o)
    BY <2>4, SettleKeeps
  <2> QED BY <1>a, <2>2, <2>3, <2>5, WriteKeeps DEF StaysPaid
<1>12. ASSUME NEW o \in Orders, ExpireOne(o) PROVE NothingStartedUnpaid'
  <2>1. \A q \in Orders : /\ order'[q].shape = order[q].shape
                          /\ order'[q].status \in {order[q].status, "CANCELLED"}
                          /\ order'[q].paymentStatus = order[q].paymentStatus
    BY <1>12 DEF ExpireOne, CloseOrder, TablesOK, OrderRows
  <2>2. \A q \in Orders : payment'[q] \in {payment[q], "FAILED"}
    BY <1>12 DEF ExpireOne, TablesOK
  <2>3. UNCHANGED <<everPaid, deducted, announced, delivery, requests>>
    BY <1>12 DEF ExpireOne, fleetVars, kitchenVars
  <2>4. \A q \in Orders : unpaidYet(q)' => unpaidYet(q) /\ untouched(q)'
    BY <2>1, <2>2, <2>3 DEF unpaidYet, untouched, NothingStartedUnpaid
  <2> QED BY <2>3, <2>4, OutsideKeeps
<1>13. ASSUME NEW o \in Orders, Age(o) PROVE NothingStartedUnpaid'
  <2>1. \A q \in Orders : /\ order'[q].shape = order[q].shape
                          /\ order'[q].status = order[q].status
                          /\ order'[q].paymentStatus = order[q].paymentStatus
    BY <1>13 DEF Age, TablesOK, OrderRows
  <2>2. UNCHANGED <<payment, everPaid, deducted, announced, delivery, requests>>
    BY <1>13 DEF Age, moneyVars, fleetVars, kitchenVars
  <2>3. \A q \in Orders : unpaidYet(q)' => unpaidYet(q) /\ untouched(q)'
    BY <2>1, <2>2 DEF unpaidYet, untouched, NothingStartedUnpaid
  <2> QED BY <2>2, <2>3, OutsideKeeps
<1>14. ASSUME ExpireSelect PROVE NothingStartedUnpaid'
  <2>1. UNCHANGED <<moneyTables, requests>>
    BY <1>14 DEF ExpireSelect, moneyTables, orderVars, moneyVars, fleetVars, kitchenVars
  <2> QED BY <2>1, SameMoneyKeeps
<1> QED BY <1>1, <1>2, <1>3, <1>4, <1>5, <1>6, <1>7, <1>8, <1>9, <1>10, <1>11, <1>12,
           <1>13, <1>14 DEF OrdersNext

\* A request goes on, without writing, to another step before the guard.
LEMMA StepBefore ==
  ASSUME TypeOK, NothingStartedUnpaid, UNCHANGED tables, NEW r \in Requests,
         requests[r].order \in Orders, NEW row, Continue(r, row),
         row.order \in {requests[r].order, NoOrder},
         row.back = requests[r].back \/ row.back = "idle",
         row.next \notin PastTheGuard, "delivery" \in row.seen => "delivery" \in requests[r].seen
  PROVE  NothingStartedUnpaid'
<1>1. requests' = [requests EXCEPT ![r] = row] /\ UNCHANGED moneyTables
  BY SlotWritten, TablesRead DEF TypeOK
<1>2. ASSUME NEW o \in Orders, unpaidYet(o), row.order = o PROVE beforeGuard(row)
  <2>1. beforeGuard(requests[r])
    BY <1>2, StoreAssumption DEF StoreAssumption, NothingStartedUnpaid
  <2> QED BY <2>1 DEF beforeGuard
<1> QED BY <1>1, <1>2, ReadKeeps

\* The ways a request goes on in the same row.
LEMMA GoesOn ==
  ASSUME TypeOK, NothingStartedUnpaid, UNCHANGED tables, NEW r \in Requests,
         requests[r].order \in Orders, NEW step, step \notin PastTheGuard,
         \/ Continue(r, [requests[r] EXCEPT !.next = step])
         \/ \E seen : /\ Continue(r, [requests[r] EXCEPT !.next = step, !.seen = seen])
                      /\ "delivery" \notin seen
         \/ \E target : Continue(r, [requests[r] EXCEPT !.next = step, !.target = target])
  PROVE  NothingStartedUnpaid'
<1> USE DEF TypeOK, RequestsOK, RequestRows
<1>1. CASE Continue(r, [requests[r] EXCEPT !.next = step])
  <2> DEFINE row == [requests[r] EXCEPT !.next = step]
  <2>1. /\ row.order = requests[r].order /\ row.back = requests[r].back /\ row.next = step
        /\ row.seen = requests[r].seen
    OBVIOUS
  <2>2. Continue(r, row)
    BY <1>1
  <2> HIDE DEF row
  <2> QED BY <2>1, <2>2, StepBefore
<1>2. ASSUME NEW seen, Continue(r, [requests[r] EXCEPT !.next = step, !.seen = seen]),
             "delivery" \notin seen
      PROVE  NothingStartedUnpaid'
  <2> DEFINE row == [requests[r] EXCEPT !.next = step, !.seen = seen]
  <2>1. /\ row.order = requests[r].order /\ row.back = requests[r].back /\ row.next = step
        /\ row.seen = seen
    OBVIOUS
  <2>2. Continue(r, row)
    BY <1>2
  <2> HIDE DEF row
  <2> QED BY <1>2, <2>1, <2>2, StepBefore
<1>3. ASSUME NEW target, Continue(r, [requests[r] EXCEPT !.next = step, !.target = target])
      PROVE  NothingStartedUnpaid'
  <2> DEFINE row == [requests[r] EXCEPT !.next = step, !.target = target]
  <2>1. /\ row.order = requests[r].order /\ row.back = requests[r].back /\ row.next = step
        /\ row.seen = requests[r].seen
    OBVIOUS
  <2>2. Continue(r, row)
    BY <1>3
  <2> HIDE DEF row
  <2> QED BY <2>1, <2>2, StepBefore
<1> QED BY <1>1, <1>2, <1>3

\* A request arrives with a row before the guard.
LEMMA ArriveBefore ==
  ASSUME TypeOK, NothingStartedUnpaid, UNCHANGED moneyTables, NEW r \in Requests, NEW op,
         NEW row, Begin(r, op, row), beforeGuard(row)
  PROVE  NothingStartedUnpaid'
BY SlotWritten, ReadKeeps DEF TypeOK

\* A step that only lowers an order's payment, and may cancel it, keeps it untouched.
LEMMA LowerKeeps ==
  ASSUME TypeOK, NothingStartedUnpaid, NEW r \in Requests, NEW row, NEW o \in Orders,
         requests' = [requests EXCEPT ![r] = row], row.order \in {o, NoOrder},
         beforeGuard(requests[r]) => beforeGuard(row), requests[r].order = o,
         OnlyOrder(o), order'[o].shape = order[o].shape,
         order'[o].status \in {order[o].status, "CANCELLED"},
         order'[o].paymentStatus \in {order[o].paymentStatus, "PROCESSING", "FAILED"},
         payment'[o] \in {payment[o], "PROCESSING", "FAILED"},
         UNCHANGED <<everPaid, deducted, announced, delivery>>
  PROVE  NothingStartedUnpaid'
<1>1. ASSUME unpaidYet(o)' PROVE unpaidYet(o) /\ untouched(o)' /\ beforeGuard(row)
  <2>1. unpaidYet(o)
    BY <1>1 DEF unpaidYet
  <2>2. untouched(o) /\ beforeGuard(requests[r])
    BY <2>1 DEF NothingStartedUnpaid
  <2> QED BY <2>1, <2>2 DEF untouched
<1> QED BY <1>1, WriteKeeps

\* Writing an order's copy of the payment status changes nothing else of the order.
CopyOnly(o, status) ==
  /\ order'[o].shape = order[o].shape /\ order'[o].status = order[o].status
  /\ order'[o].paymentStatus = status
  /\ \A q \in Orders \ {o} : order'[q] = order[q]

\* Writing the copy of the payment status writes that column alone.
LEMMA CopyKeeps ==
  ASSUME TypeOK, NEW o \in Orders, NEW status,
         order' = [order EXCEPT ![o].paymentStatus = status]
  PROVE  CopyOnly(o, status)
BY DEF TypeOK, TablesOK, OrderRows, CopyOnly

\* The invariant is kept by every action of the payments service: the only one that
\* collects records it in everPaid, and the kitchen is told after it.
LEMMA PaymentsKeep ==
  ASSUME TypeOK, NothingStartedUnpaid, PaymentsNext
  PROVE  NothingStartedUnpaid'
<1> USE DEF TypeOK
<1>0. \A r \in Requests, step \in Steps \ (DriverSteps \union {"idle"}) :
        At(r, step) => requests[r].order \in Orders
  BY AtOrder DEF At
<1>a. /\ Idle.order = NoOrder /\ beforeGuard(Idle) /\ Idle.back = "idle" /\ Idle.seen = {}
      /\ Idle.next \notin PastTheGuard
  BY DEF Idle, beforeGuard, PastTheGuard
<1>1. ASSUME NEW r \in Requests, NEW o \in Orders, InitiateRead(r, o)
      PROVE  NothingStartedUnpaid'
  <2>1. beforeGuard(On("initiateWrite", o))
    BY OnBefore DEF Steps, PastTheGuard
  <2>2. UNCHANGED moneyTables
    BY <1>1 DEF InitiateRead, moneyTables, orderVars, moneyVars, fleetVars, kitchenVars
  <2> QED BY <1>1, <2>1, <2>2, ArriveBefore DEF InitiateRead
<1>2. ASSUME NEW r \in Requests, InitiateWrite(r) PROVE NothingStartedUnpaid'
  <2>1. PICK o \in Orders : o = requests[r].order
    BY <1>0, <1>2 DEF InitiateWrite, Steps, DriverSteps
  <2>2. requests' = [requests EXCEPT ![r] = On("initiateCopy", o)]
    BY <1>2, <2>1, SlotWritten DEF InitiateWrite
  <2>3. beforeGuard(On("initiateCopy", o)) /\ On("initiateCopy", o).order = o
    BY OnBefore DEF Steps, PastTheGuard
  <2>4. /\ UNCHANGED <<order, everPaid, deducted, announced, delivery>> /\ OnlyOrder(o)
        /\ payment'[o] \in {payment[o], "PROCESSING", "FAILED"}
    BY <1>2, <2>1 DEF InitiateWrite, OnlyOrder, TablesOK, orderVars, fleetVars, kitchenVars
  <2> QED BY <2>1, <2>2, <2>3, <2>4, LowerKeeps
<1>3. ASSUME NEW r \in Requests, InitiateCopy(r) PROVE NothingStartedUnpaid'
  <2>1. PICK o \in Orders : o = requests[r].order
    BY <1>0, <1>3 DEF InitiateCopy, Steps, DriverSteps
  <2>2. requests' = [requests EXCEPT ![r] = Idle]
    BY <1>3, SlotWritten DEF InitiateCopy
  <2>3. /\ UNCHANGED <<payment, everPaid, deducted, announced, delivery>>
        /\ order' = [order EXCEPT ![o].paymentStatus = "PROCESSING"]
    BY <1>3, <2>1 DEF InitiateCopy, moneyVars, fleetVars, kitchenVars
  <2>4. CopyOnly(o, "PROCESSING")
    BY <2>3, CopyKeeps
  <2>5. OnlyOrder(o)
    BY <2>3, <2>4 DEF CopyOnly, OnlyOrder
  <2> QED BY <1>a, <2>1, <2>2, <2>3, <2>4, <2>5, LowerKeeps DEF CopyOnly
<1>4. ASSUME NEW r \in Requests, NEW o \in Orders, Confirm(r, o) PROVE NothingStartedUnpaid'
  <2>1. beforeGuard(On("confirmTx", o))
    BY OnBefore DEF Steps, PastTheGuard
  <2> QED BY <1>4, <2>1, TablesRead, ArriveBefore DEF Confirm
<1>5. ASSUME NEW r \in Requests, ConfirmRead(r) PROVE NothingStartedUnpaid'
  <2>1. /\ requests[r].order \in Orders /\ UNCHANGED tables
        /\ \/ Continue(r, [requests[r] EXCEPT !.next = "confirmTx"])
           \/ Continue(r, Idle)
    BY <1>0, <1>5 DEF ConfirmRead, Finish, Steps, DriverSteps
  <2>2. "confirmTx" \notin PastTheGuard
    BY DEF PastTheGuard
  <2>3. CASE Continue(r, Idle)
    BY <1>a, <2>1, <2>3, StepBefore
  <2> QED BY <2>1, <2>2, <2>3, GoesOn
<1>6. ASSUME NEW r \in Requests, ConfirmTx(r) PROVE NothingStartedUnpaid'
  <2>1. PICK seen : /\ Continue(r, [requests[r] EXCEPT !.next = "confirmCommit", !.seen = seen])
                    /\ seen \subseteq {"cancelled", "revivable"}
    BY <1>6 DEF ConfirmTx
  <2>2. requests[r].order \in Orders /\ UNCHANGED tables /\ "confirmCommit" \notin PastTheGuard
    BY <1>0, <1>6 DEF ConfirmTx, Steps, DriverSteps, PastTheGuard
  <2> QED BY <2>1, <2>2, GoesOn
<1>7. ASSUME NEW r \in Requests, ConfirmCommit(r) PROVE NothingStartedUnpaid'
  <2>1. PICK o \in Orders : o = requests[r].order
    BY <1>0, <1>7 DEF ConfirmCommit, Steps, DriverSteps
  <2>2. PICK row : /\ requests' = [requests EXCEPT ![r] = row]
                   /\ row.order \in {o, NoOrder}
    <3>1. \/ Return(r)
          \/ Continue(r, [requests[r] EXCEPT !.next = "announce", !.seen = {}])
      BY <1>7 DEF ConfirmCommit
    <3>2. [requests[r] EXCEPT !.next = "announce", !.seen = {}].order = o
      BY <2>1 DEF RequestsOK, RequestRows
    <3> QED BY <2>1, <3>1, <3>2, ReturnPast, SlotWritten
  <2>3. \A q \in Orders \ {o} : order'[q] = order[q]
    BY <1>7, <2>1 DEF ConfirmCommit, Retablir, TablesOK
  <2>4. OnlyOrder(o)
    BY <1>7, <2>1, <2>3 DEF ConfirmCommit, OnlyOrder, TablesOK, fleetVars, kitchenVars
  <2>5. ~ unpaidYet(o)'
    BY <1>7, <2>1 DEF ConfirmCommit, unpaidYet, TablesOK
  <2> QED BY <2>2, <2>4, <2>5, WriteKeeps
<1>8. ASSUME NEW r \in Requests, Announce(r) PROVE NothingStartedUnpaid'
  <2>1. PICK o \in Orders : o = requests[r].order
    BY <1>0, <1>8 DEF Announce, Steps, DriverSteps
  <2>2. ~ unpaidYet(o)
    BY <1>8, <2>1, PastIsPaid DEF Announce, At, PastTheGuard
  <2>3. PICK row : /\ requests' = [requests EXCEPT ![r] = row]
                   /\ row.order \in {o, NoOrder}
    BY <1>8, <2>1, ReturnPast DEF Announce
  <2>4. OnlyOrder(o) /\ StaysPaid(o)
    BY <1>8, <2>1 DEF Announce, OnlyOrder, StaysPaid, unpaidYet, TablesOK, orderVars, moneyVars,
                      fleetVars
  <2> QED BY <2>2, <2>3, <2>4, WriteKeeps DEF StaysPaid
<1>9. ASSUME NEW r \in Requests, NEW o \in Orders, MarkFailed(r, o)
      PROVE  NothingStartedUnpaid'
  <2>1. beforeGuard(On("failCommit", o))
    BY OnBefore DEF Steps, PastTheGuard
  <2> QED BY <1>9, <2>1, TablesRead, ArriveBefore DEF MarkFailed
<1>10. ASSUME NEW r \in Requests, FailCommit(r) PROVE NothingStartedUnpaid'
  <2>1. PICK o \in Orders : o = requests[r].order
    BY <1>0, <1>10 DEF FailCommit, Steps, DriverSteps
  <2>2. PICK row : /\ requests' = [requests EXCEPT ![r] = row]
                   /\ row.order \in {o, NoOrder}
                   /\ beforeGuard(requests[r]) => beforeGuard(row)
    BY <1>10, <2>1, ReturnPast, ReturnBefore DEF FailCommit, At
  <2>3. /\ UNCHANGED <<everPaid, deducted, announced, delivery>>
        /\ order' = [order EXCEPT ![o].paymentStatus = "FAILED"]
        /\ payment' = [payment EXCEPT ![o] = "FAILED"]
    BY <1>10, <2>1 DEF FailCommit, fleetVars, kitchenVars
  <2>4. /\ CopyOnly(o, "FAILED") /\ payment'[o] = "FAILED"
        /\ \A q \in Orders \ {o} : payment'[q] = payment[q]
    BY <2>3, CopyKeeps DEF TablesOK
  <2>5. OnlyOrder(o)
    BY <2>3, <2>4 DEF CopyOnly, OnlyOrder
  <2> QED BY <2>1, <2>2, <2>3, <2>4, <2>5, LowerKeeps DEF CopyOnly
<1>11. ASSUME NEW r \in Requests, NEW o \in Orders, RefundRead(r, o)
       PROVE  NothingStartedUnpaid'
  <2>1. ~ unpaidYet(o)
    BY <1>11 DEF RefundRead, NothingStartedUnpaid, untouched
  <2>2. On("refundCommit", o).order = o
    BY DEF On, Idle
  <2> QED BY <1>11, <2>1, <2>2, SlotWritten, TablesRead, ReadKeeps DEF RefundRead
<1>12. ASSUME NEW r \in Requests, RefundCommit(r) PROVE NothingStartedUnpaid'
  <2>1. PICK o \in Orders : o = requests[r].order
    BY <1>0, <1>12 DEF RefundCommit, Steps, DriverSteps
  <2>2. ~ unpaidYet(o)
    BY <1>12, <2>1, PastIsPaid DEF RefundCommit, At, PastTheGuard
  <2>3. requests' = [requests EXCEPT ![r] = Idle]
    BY <1>12, SlotWritten DEF RefundCommit
  <2>4. /\ UNCHANGED <<everPaid, deducted, announced, delivery>>
        /\ order' = [order EXCEPT ![o].paymentStatus = "REFUNDED"]
        /\ payment' = [payment EXCEPT ![o] = "REFUNDED"]
    BY <1>12, <2>1 DEF RefundCommit, fleetVars, kitchenVars
  <2>5. /\ CopyOnly(o, "REFUNDED") /\ \A q \in Orders \ {o} : payment'[q] = payment[q]
    BY <2>4, CopyKeeps DEF TablesOK
  <2>6. OnlyOrder(o) /\ StaysPaid(o)
    BY <2>4, <2>5 DEF CopyOnly, OnlyOrder, StaysPaid, unpaidYet
  <2> QED BY <1>a, <2>2, <2>3, <2>6, WriteKeeps DEF StaysPaid
<1>13. ASSUME NEW r \in Requests, NEW o \in Orders, Abandon(r, o) PROVE NothingStartedUnpaid'
  <2>1. beforeGuard([On("reconcile", o) EXCEPT !.back = "abandonRead"])
    BY DEF beforeGuard, On, Idle, PastTheGuard
  <2> QED BY <1>13, <2>1, TablesRead, ArriveBefore DEF Abandon
<1>14. ASSUME NEW r \in Requests, AbandonRead(r) PROVE NothingStartedUnpaid'
  <2>1. PICK step \in {"abandonTx", "reconcile"} : Continue(r, On(step, requests[r].order))
    BY <1>14 DEF AbandonRead
  <2>2. requests[r].order \in Orders /\ UNCHANGED tables
    BY <1>0, <1>14 DEF AbandonRead, Steps, DriverSteps
  <2>3. LET row == On(step, requests[r].order) IN
        row.order = requests[r].order /\ row.back = "idle" /\ row.seen = {}
          /\ row.next \notin PastTheGuard
    BY DEF On, Idle, PastTheGuard
  <2> QED BY <2>1, <2>2, <2>3, StepBefore
<1>15. ASSUME NEW r \in Requests, AbandonTx(r) PROVE NothingStartedUnpaid'
  <2>1. PICK seen \in SUBSET {"pending"} :
          Continue(r, [On("abandonCommit", requests[r].order) EXCEPT !.seen = seen])
    BY <1>15 DEF AbandonTx
  <2>2. requests[r].order \in Orders /\ UNCHANGED tables
    BY <1>0, <1>15 DEF AbandonTx, Steps, DriverSteps
  <2>3. LET row == [On("abandonCommit", requests[r].order) EXCEPT !.seen = seen] IN
        row.order = requests[r].order /\ row.back = "idle" /\ "delivery" \notin row.seen
          /\ row.next \notin PastTheGuard
    BY DEF On, Idle, PastTheGuard
  <2> QED BY <2>1, <2>2, <2>3, StepBefore
<1>16. ASSUME NEW r \in Requests, AbandonCommit(r) PROVE NothingStartedUnpaid'
  <2>1. PICK o \in Orders : o = requests[r].order
    BY <1>0, <1>16 DEF AbandonCommit, Steps, DriverSteps
  <2>2. requests' = [requests EXCEPT ![r] = Idle]
    BY <1>16, SlotWritten DEF AbandonCommit
  <2>3. UNCHANGED <<everPaid, deducted, announced, delivery>>
    BY <1>16 DEF AbandonCommit, fleetVars, kitchenVars
  <2>4. /\ order'[o].shape = order[o].shape /\ order'[o].status \in {order[o].status, "CANCELLED"}
        /\ order'[o].paymentStatus = "FAILED" /\ \A q \in Orders \ {o} : order'[q] = order[q]
    BY <1>16, <2>1 DEF AbandonCommit, TablesOK, OrderRows
  <2>5. payment'[o] = "FAILED" /\ \A q \in Orders \ {o} : payment'[q] = payment[q]
    BY <1>16, <2>1 DEF AbandonCommit, TablesOK
  <2>6. OnlyOrder(o)
    BY <2>3, <2>4, <2>5 DEF OnlyOrder
  <2> QED BY <1>a, <2>1, <2>2, <2>3, <2>4, <2>5, <2>6, LowerKeeps
<1>17. ASSUME NEW r \in Requests, NEW o \in Orders, FindForOrder(r, o)
       PROVE  NothingStartedUnpaid'
  <2>1. beforeGuard(On("reconcile", o))
    BY OnBefore DEF Steps, PastTheGuard
  <2> QED BY <1>17, <2>1, TablesRead, ArriveBefore DEF FindForOrder
<1>18. ASSUME NEW r \in Requests, Reconcile(r) PROVE NothingStartedUnpaid'
  <2>1. /\ requests[r].order \in Orders /\ UNCHANGED tables /\ requests[r].next # "idle"
        /\ Return(r) \/ Continue(r, [requests[r] EXCEPT !.next = "ask"])
    BY <1>0, <1>18 DEF Reconcile, At, Steps, DriverSteps
  <2>2. "ask" \notin PastTheGuard
    BY DEF PastTheGuard
  <2>3. CASE Return(r)
    BY <2>1, <2>3, TablesRead, ReturnKeeps
  <2> QED BY <2>1, <2>2, <2>3, GoesOn
<1>19. ASSUME NEW r \in Requests, Ask(r) PROVE NothingStartedUnpaid'
  <2>1. /\ requests[r].order \in Orders /\ UNCHANGED tables /\ requests[r].next # "idle"
        /\ \/ Return(r)
           \/ \E target : Continue(r, [requests[r] EXCEPT !.next = "callback",
                                                        !.target = target])
    BY <1>0, <1>19 DEF Ask, At, Steps, DriverSteps
  <2>2. "callback" \notin PastTheGuard
    BY DEF PastTheGuard
  <2>3. CASE Return(r)
    BY <2>1, <2>3, TablesRead, ReturnKeeps
  <2> QED BY <2>1, <2>2, <2>3, GoesOn
<1>20. ASSUME NEW r \in Requests, NEW o \in Orders, NEW outcome \in Outcomes,
              OperatorCalls(r, o, outcome)
       PROVE  NothingStartedUnpaid'
  <2>1. beforeGuard(Towards("callback", o, outcome))
    BY OnBefore DEF Steps, PastTheGuard
  <2> QED BY <1>20, <2>1, TablesRead, ArriveBefore DEF OperatorCalls
<1>21. ASSUME NEW r \in Requests, ApplyCallback(r) PROVE NothingStartedUnpaid'
  <2>1. /\ requests[r].order \in Orders /\ UNCHANGED tables /\ requests[r].next # "idle"
        /\ \/ Return(r)
           \/ \E step \in {"confirmRead", "failCommit"} :
                Continue(r, [requests[r] EXCEPT !.next = step, !.target = "none"])
    BY <1>0, <1>21 DEF ApplyCallback, calledBack, At, Steps, DriverSteps
  <2>2. {"confirmRead", "failCommit"} \cap PastTheGuard = {}
    BY DEF PastTheGuard
  <2>3. CASE Return(r)
    BY <2>1, <2>3, TablesRead, ReturnKeeps
  <2> QED BY <2>1, <2>2, <2>3, GoesOn
<1>22. ASSUME NEW o \in Orders, NEW outcome \in Outcomes, OperatorDecides(o, outcome)
       PROVE  NothingStartedUnpaid'
  <2>1. UNCHANGED <<moneyTables, requests>>
    BY <1>22 DEF OperatorDecides, moneyTables, orderVars, moneyVars, fleetVars, kitchenVars
  <2> QED BY <2>1, SameMoneyKeeps
<1> QED BY <1>1, <1>2, <1>3, <1>4, <1>5, <1>6, <1>7, <1>8, <1>9, <1>10, <1>11, <1>12,
           <1>13, <1>14, <1>15, <1>16, <1>17, <1>18, <1>19, <1>20, <1>21, <1>22
        DEF PaymentsNext

\* The courier's routes find nothing to act on: no delivery row exists.
LEMMA NoDeliveryYet ==
  ASSUME NothingStartedUnpaid, NEW o \in Orders, unpaidYet(o)
  PROVE  /\ delivery[o].status = "ABSENT" /\ delivery[o].driver = NoDriver
         /\ ~ calledBy(delivery[o].driver)
         /\ \A target : ~ canTransitionDelivery(delivery[o].status, target)
BY StoreAssumption DEF StoreAssumption, NothingStartedUnpaid, untouched, calledBy,
                       canTransitionDelivery, DELIVERY_ACTIVE

\* A request arrives for an order that was paid.
LEMMA ArrivePaid ==
  ASSUME TypeOK, NothingStartedUnpaid, UNCHANGED tables, NEW r \in Requests, NEW op,
         NEW o \in Orders, NEW row, Begin(r, op, row), row.order = o, ~ unpaidYet(o)
  PROVE  NothingStartedUnpaid'
BY SlotWritten, TablesRead, ReadKeeps DEF TypeOK

\* A request for an order that was paid goes on, writing at most its delivery.
LEMMA PaidGoesOn ==
  ASSUME TypeOK, NothingStartedUnpaid, NEW r \in Requests, NEW row, NEW o \in Orders,
         ~ unpaidYet(o), requests' = [requests EXCEPT ![r] = row], row.order \in {o, NoOrder},
         UNCHANGED <<payment, everPaid, deducted, announced>>,
         order' = order \/ (\E status : WriteStatus(o, status)),
         \A q \in Orders \ {o} : delivery'[q] = delivery[q]
  PROVE  NothingStartedUnpaid'
<1>1. order'[o].shape = order[o].shape /\ \A q \in Orders \ {o} : order'[q] = order[q]
  BY DEF TypeOK, TablesOK, OrderRows, WriteStatus
<1>2. OnlyOrder(o)
  BY <1>1 DEF OnlyOrder
<1>3. ~ unpaidYet(o)'
  BY <1>1 DEF unpaidYet
<1> QED BY <1>2, <1>3, WriteKeeps

\* The invariant is kept by every action of the deliveries service: an unpaid order
\* is never assignable, so it has no delivery to move.
LEMMA DeliveriesKeep ==
  ASSUME TypeOK, NothingStartedUnpaid, DeliveriesNext
  PROVE  NothingStartedUnpaid'
<1> USE DEF TypeOK
<1>0. \A r \in Requests, step \in Steps \ (DriverSteps \union {"idle"}) :
        At(r, step) => requests[r].order \in Orders
  BY AtOrder DEF At
<1>a. Idle.order = NoOrder /\ NoOrder \notin Orders /\ beforeGuard(Idle)
  BY StoreAssumption DEF Idle, StoreAssumption, beforeGuard, PastTheGuard
<1>1. ASSUME NEW r \in Requests, NEW o \in Orders, NEW d \in Drivers, AssignRead(r, o, d)
      PROVE  NothingStartedUnpaid'
  <2>1. ~ unpaidYet(o)
    BY <1>1 DEF AssignRead, assignableStatuses, NothingStartedUnpaid, untouched
  <2>2. PICK row : Begin(r, "assign", row) /\ row.order = o
    <3> DEFINE seen == (IF delivery[o].status # "ABSENT" THEN {"delivery"} ELSE {})
                         \union (IF order[o].status = "READY" THEN {"ready"} ELSE {})
               row == [On("assignCommit", o) EXCEPT !.driver = d,
                         !.previous = delivery[o].driver, !.seen = seen]
    <3>1. Begin(r, "assign", row)
      BY <1>1 DEF AssignRead
    <3>2. row.order = o
      BY DEF On, Idle
    <3> QED BY <3>1, <3>2
  <2> QED BY <1>1, <2>1, <2>2, ArrivePaid DEF AssignRead
<1>2. ASSUME NEW r \in Requests, NEW op, NEW o \in Orders, NEW target, BeginMove(r, op, o, target)
      PROVE  NothingStartedUnpaid'
  <2>1. ~ unpaidYet(o)
    BY <1>2, NoDeliveryYet DEF BeginMove
  <2>2. [Towards("moveCommit", o, target) EXCEPT !.driver = delivery[o].driver].order = o
    BY DEF Towards, On, Idle
  <2> QED BY <1>2, <2>1, <2>2, ArrivePaid DEF BeginMove
<1>3. ASSUME NEW r \in Requests, NEW o \in Orders, Complete(r, o) PROVE NothingStartedUnpaid'
  <2>1. ~ unpaidYet(o) /\ UNCHANGED tables
    BY <1>3, NoDeliveryYet DEF Complete
  <2>2. PICK row : Begin(r, "complete", row) /\ row.order = o
    <3>1. /\ On("completeRead", o).order = o
          /\ [Towards("moveCommit", o, "ARRIVED_AT_CUSTOMER") EXCEPT
                !.driver = delivery[o].driver, !.back = "completeRead"].order = o
      BY DEF Towards, On, Idle
    <3> QED BY <1>3, <3>1 DEF Complete
  <2> QED BY <2>1, <2>2, ArrivePaid
<1>4. ASSUME NEW r \in Requests, NEW o \in Orders, DeclineRead(r, o)
      PROVE  NothingStartedUnpaid'
  <2>1. ~ unpaidYet(o)
    BY <1>4, NoDeliveryYet DEF DeclineRead
  <2>2. [On("declineCommit", o) EXCEPT !.driver = delivery[o].driver].order = o
    BY DEF On, Idle
  <2> QED BY <1>4, <2>1, <2>2, ArrivePaid DEF DeclineRead
<1>5. ASSUME NEW r \in Requests, NEW d \in Drivers, NEW presence, 
             UpdateAvailabilityRead(r, d, presence)
      PROVE  NothingStartedUnpaid'
  <2>1. PICK seen \in SUBSET {"active"} :
          Begin(r, "availability", [Idle EXCEPT !.next = "availabilityCommit", !.driver = d,
                                                !.target = presence, !.seen = seen])
    BY <1>5 DEF UpdateAvailabilityRead
  <2>2. beforeGuard([Idle EXCEPT !.next = "availabilityCommit", !.driver = d,
                                 !.target = presence, !.seen = seen])
    BY DEF beforeGuard, Idle, PastTheGuard
  <2> QED BY <1>5, <2>1, <2>2, TablesRead, ArriveBefore DEF UpdateAvailabilityRead
<1>6. ASSUME NEW r \in Requests, NEW d \in Drivers, NEW status, SetStatusRead(r, d, status)
      PROVE  NothingStartedUnpaid'
  <2>1. beforeGuard([Idle EXCEPT !.next = "driverStatusCommit", !.driver = d,
                                 !.target = status])
    BY DEF beforeGuard, Idle, PastTheGuard
  <2> QED BY <1>6, <2>1, TablesRead, ArriveBefore DEF SetStatusRead
<1>7. ASSUME NEW r \in Requests, AssignFails(r) PROVE NothingStartedUnpaid'
  BY <1>7, <1>a, SlotWritten, TablesRead, ReadKeeps DEF AssignFails
<1>8. ASSUME NEW r \in Requests, AssignCommit(r) PROVE NothingStartedUnpaid'
  <2>1. PICK o \in Orders : o = requests[r].order
    BY <1>0, <1>8 DEF AssignCommit, Steps, DriverSteps
  <2>2. ~ unpaidYet(o)
    BY <1>8, <2>1, PastIsPaid DEF AssignCommit, At, PastTheGuard
  <2>3. /\ requests' = [requests EXCEPT ![r] = Idle]
        /\ UNCHANGED <<payment, everPaid, deducted, announced>>
        /\ order' = order \/ (\E status : WriteStatus(o, status))
    BY <1>8, <2>1, SlotWritten DEF AssignCommit, moneyVars, kitchenVars, orderVars
  <2>4. \A q \in Orders \ {o} : delivery'[q] = delivery[q]
    BY <1>8, <2>1 DEF AssignCommit, TablesOK
  <2> QED BY <1>a, <2>2, <2>3, <2>4, PaidGoesOn
<1>9. ASSUME NEW r \in Requests, MoveCommit(r) PROVE NothingStartedUnpaid'
  <2>1. PICK o \in Orders : o = requests[r].order
    BY <1>0, <1>9 DEF MoveCommit, Steps, DriverSteps
  <2>2. ~ unpaidYet(o)
    BY <1>9, <2>1, PastIsPaid DEF MoveCommit, At, PastTheGuard
  <2>3. PICK row : /\ requests' = [requests EXCEPT ![r] = row]
                   /\ row.order \in {o, NoOrder}
    <3>1. \/ Continue(r, Towards("systemRead", o, "OUT_FOR_DELIVERY"))
          \/ Continue(r, Towards("systemRead", o, "DELIVERED"))
          \/ Return(r)
      BY <1>9, <2>1 DEF MoveCommit
    <3>2. \A goal : Towards("systemRead", o, goal).order = o
      BY DEF Towards, On, Idle
    <3>3. \A goal : Continue(r, Towards("systemRead", o, goal)) =>
            requests' = [requests EXCEPT ![r] = Towards("systemRead", o, goal)]
      BY SlotWritten
    <3>4. CASE \E goal : Continue(r, Towards("systemRead", o, goal))
      BY <3>2, <3>3, <3>4
    <3>5. CASE Return(r)
      BY <2>1, <3>5, ReturnPast
    <3> QED BY <3>1, <3>4, <3>5
  <2>4. UNCHANGED <<order, payment, everPaid, deducted, announced>>
    BY <1>9 DEF MoveCommit, orderVars, moneyVars, kitchenVars
  <2>5. \A q \in Orders \ {o} : delivery'[q] = delivery[q]
    BY <1>9, <2>1 DEF MoveCommit, TablesOK
  <2> QED BY <2>2, <2>3, <2>4, <2>5, PaidGoesOn
<1>10. ASSUME NEW r \in Requests, CompleteRead(r) PROVE NothingStartedUnpaid'
  <2>1. PICK o \in Orders : o = requests[r].order
    BY <1>0, <1>10 DEF CompleteRead, Steps, DriverSteps
  <2>2. ~ unpaidYet(o)
    BY <1>10, <2>1, PastIsPaid DEF CompleteRead, At, PastTheGuard
  <2>3. PICK row : requests' = [requests EXCEPT ![r] = row] /\ row.order = o
    <3>1. [Towards("moveCommit", o, "DELIVERED") EXCEPT !.driver = delivery[o].driver].order = o
      BY DEF Towards, On, Idle
    <3> QED BY <1>10, <2>1, <3>1, SlotWritten DEF CompleteRead
  <2> QED BY <1>10, <2>2, <2>3, TablesRead, ReadKeeps DEF CompleteRead
<1>11. ASSUME NEW r \in Requests, DeclineCommit(r) PROVE NothingStartedUnpaid'
  <2>1. PICK o \in Orders : o = requests[r].order
    BY <1>0, <1>11 DEF DeclineCommit, Steps, DriverSteps
  <2>2. ~ unpaidYet(o)
    BY <1>11, <2>1, PastIsPaid DEF DeclineCommit, At, PastTheGuard
  <2>3. /\ requests' = [requests EXCEPT ![r] = Idle]
        /\ UNCHANGED <<payment, everPaid, deducted, announced>>
        /\ order' = order \/ (\E status : WriteStatus(o, status))
    BY <1>11, <2>1, SlotWritten DEF DeclineCommit, moneyVars, kitchenVars, orderVars
  <2>4. \A q \in Orders \ {o} : delivery'[q] = delivery[q]
    BY <1>11, <2>1 DEF DeclineCommit, TablesOK
  <2> QED BY <1>a, <2>2, <2>3, <2>4, PaidGoesOn
<1>12. ASSUME NEW r \in Requests, UpdateAvailabilityCommit(r) \/ SetStatusCommit(r)
       PROVE  NothingStartedUnpaid'
  <2>1. UNCHANGED moneyTables /\ requests' = [requests EXCEPT ![r] = Idle]
    BY <1>12, SlotWritten DEF UpdateAvailabilityCommit, SetStatusCommit, moneyTables, orderVars,
                              moneyVars, kitchenVars
  <2> QED BY <1>a, <2>1, ReadKeeps
<1>13. ASSUME NEW stale, ReleaseStaleDrivers(stale) PROVE NothingStartedUnpaid'
  <2>1. UNCHANGED <<moneyTables, requests>>
    BY <1>13 DEF ReleaseStaleDrivers, moneyTables, orderVars, moneyVars, kitchenVars
  <2> QED BY <2>1, SameMoneyKeeps
<1> QED BY <1>1, <1>2, <1>3, <1>4, <1>5, <1>6, <1>7, <1>8, <1>9, <1>10, <1>11, <1>12, <1>13
        DEF DeliveriesNext, Advance, Fail, UpdateStatusByStaff

\* A crash forgets requests; it writes no row.
LEMMA CrashKeeps ==
  ASSUME TypeOK, NothingStartedUnpaid, (\E r \in Requests : Abort(r)) \/ CronCrash
  PROVE  NothingStartedUnpaid'
<1>1. ASSUME NEW r \in Requests, Abort(r) PROVE NothingStartedUnpaid'
  <2>1. beforeGuard(Idle) /\ requests' = [requests EXCEPT ![r] = Idle] /\ UNCHANGED moneyTables
    BY <1>1, SlotWritten, TablesRead DEF Abort, TypeOK, beforeGuard, Idle, PastTheGuard
  <2> QED BY <2>1, ReadKeeps
<1>2. CASE CronCrash
  <2>1. UNCHANGED <<moneyTables, requests>>
    BY <1>2 DEF CronCrash, moneyTables, orderVars, moneyVars, fleetVars, kitchenVars
  <2> QED BY <2>1, SameMoneyKeeps
<1> QED BY <1>1, <1>2

\* At first nothing has been ordered.
LEMMA NothingStartedAtFirst == Init => NothingStartedUnpaid
<1> SUFFICES ASSUME Init, NEW o \in Orders
             PROVE  /\ untouched(o)
                    /\ \A r \in Requests : requests[r].order = o => beforeGuard(requests[r])
  BY DEF NothingStartedUnpaid
<1>1. PICK shapes \in [Orders -> Shapes] : order = [q \in Orders |-> NewOrder(shapes[q])]
  BY DEF Init
<1>2. order[o].status = "ABSENT" /\ order[o].paymentStatus = "PENDING"
  BY <1>1 DEF NewOrder
<1>3. untouched(o)
  BY <1>2 DEF Init, untouched
<1>4. \A r \in Requests : beforeGuard(requests[r])
  BY DEF Init, Idle, beforeGuard, PastTheGuard
<1> QED BY <1>3, <1>4

\* Every step of the system keeps NothingStartedUnpaid.
LEMMA NothingStartedKept ==
  ASSUME TypeOK, NothingStartedUnpaid, [Next]_vars
  PROVE  NothingStartedUnpaid'
<1>1. CASE UNCHANGED vars
  <2>1. UNCHANGED <<moneyTables, requests>>
    BY <1>1 DEF vars, moneyTables
  <2> QED BY <2>1, SameMoneyKeeps
<1> QED BY <1>1, OrdersKeep, PaymentsKeep, DeliveriesKeep, CrashKeeps DEF Next

\* Until its payment is collected, nothing is started for an order settled
\* online, whatever handlers interleave, repeat or die half-way.
THEOREM NothingStarts == Spec => []NothingStartedUnpaid
<1>1. TypeOK /\ NothingStartedUnpaid /\ [Next]_vars => NothingStartedUnpaid'
  BY NothingStartedKept
<1> QED BY NothingStartedAtFirst, <1>1, TypeCorrect, PTL DEF Spec

\* The kitchen never sees, cooks or deducts an unpaid online order: the guard of
\* updateStatus, read outside its transaction, is enough, because no payment
\* that was collected is ever forgotten as collected.
THEOREM NoKitchenBeforeMoney == Spec => []KitchenOnlyAfterMoney
<1>1. TypeOK /\ NothingStartedUnpaid => KitchenOnlyAfterMoney
  BY DEF TypeOK, TablesOK, NothingStartedUnpaid, KitchenOnlyAfterMoney, unpaidYet, untouched,
         KitchenStatuses
<1> QED BY <1>1, TypeCorrect, NothingStarts, PTL
=============================================================================
