----------------------------- MODULE Deliveries -----------------------------
(***************************************************************************)
(* The handlers of src/deliveries/deliveries.service.ts, the driver checks *)
(* of src/deliveries/driver-assignment.service.ts, the driver's own state  *)
(* in src/drivers/drivers.service.ts, and the cron job that signs stale    *)
(* drivers off.                                                            *)
(***************************************************************************)
EXTENDS Store

\* Mutant: the deliveries are counted as they were before the write.
refreshedBefore(d, drivers, deliveries) ==
  [drivers EXCEPT ![d].available = activeDeliveries(delivery, d) = {}]

\* refreshAvailability: a driver is available when no active delivery holds
\* them, counted in the deliveries as this transaction has just left them.
refreshed(d, drivers, deliveries) ==
  [drivers EXCEPT ![d].available = activeDeliveries(deliveries, d) = {}]

refreshedIfAny(d, drivers, deliveries) ==
  IF d = NoDriver THEN drivers ELSE refreshed(d, drivers, deliveries)

(***************************************************************************)
(* assign: gives, or hands over, an order to a driver.  The driver is      *)
(* checked inside the transaction, the order and its delivery before it.   *)
(***************************************************************************)

assignableStatuses == {"CONFIRMED", "PREPARING", "READY", "ASSIGNED", "OUT_FOR_DELIVERY"}

assertAssignable(d) == driver[d].status = "ACTIVE" /\ driver[d].online

AssignRead(r, o, d) ==
  /\ order[o].status \in assignableStatuses /\ order[o].shape.type = "DELIVERY"
  /\ delivery[o].status # "DELIVERED" /\ delivery[o].driver # d
  /\ Begin(r, "assign",
           [On("assignCommit", o) EXCEPT
              !.driver = d,
              !.previous = delivery[o].driver,
              !.seen = (IF delivery[o].status # "ABSENT" THEN {"delivery"} ELSE {})
                         \union (IF order[o].status = "READY" THEN {"ready"} ELSE {})])
  /\ UNCHANGED tables

\* An unassignable driver, or a delivery inserted meanwhile (orderId is unique),
\* makes the transaction fail.
AssignFails(r) ==
  LET o == requests[r].order IN
  /\ At(r, "assignCommit")
  /\ \/ ~ assertAssignable(requests[r].driver)
     \/ "delivery" \notin requests[r].seen /\ delivery[o].status # "ABSENT"
  /\ Finish(r)
  /\ UNCHANGED tables

AssignCommit(r) ==
  LET o == requests[r].order  d == requests[r].driver  seen == requests[r].seen IN
  /\ At(r, "assignCommit")
  /\ assertAssignable(d)
  /\ "delivery" \in seen \/ delivery[o].status = "ABSENT"
  /\ delivery' = [delivery EXCEPT ![o] = [status |-> "ASSIGNED", driver |-> d]]
  /\ driver' = refreshedIfAny(requests[r].previous,
                              [driver EXCEPT ![d].available = FALSE], delivery')
  /\ IF "ready" \in seen THEN WriteStatus(o, "ASSIGNED") ELSE UNCHANGED orderVars
  /\ Finish(r)
  /\ UNCHANGED <<moneyVars, ledgerVars, kitchenVars, operator, perimees>>

\* JwtStrategy reads the account again on every call: only an active driver acts.
calledBy(d) == d \in Drivers /\ driver[d].status = "ACTIVE"

(***************************************************************************)
(* The driver's progress (advance), a failure seen on the ground (fail),   *)
(* the back office's correction (updateStatusByStaff): all end in          *)
(* applyTransition.                                                        *)
(***************************************************************************)
BeginMove(r, op, o, target) ==
  /\ canTransitionDelivery(delivery[o].status, target)
  /\ Begin(r, op, [Towards("moveCommit", o, target) EXCEPT !.driver = delivery[o].driver])
  /\ UNCHANGED tables

Advance(r, o, target) ==
  /\ calledBy(delivery[o].driver) /\ target \in DELIVERY_ACTIVE
  /\ BeginMove(r, "advance", o, target)

Fail(r, o) == BeginMove(r, "fail", o, "FAILED")

UpdateStatusByStaff(r, o, target) == BeginMove(r, "correct", o, target)

\* applyTransition.  The order follows afterwards, outside this transaction.
MoveCommit(r) ==
  LET o == requests[r].order  target == requests[r].target IN
  /\ At(r, "moveCommit")
  /\ delivery' = [delivery EXCEPT ![o].status = target]
  /\ driver' = refreshedIfAny(requests[r].driver, driver, delivery')
  /\ CASE target = "PICKED_UP" -> Continue(r, Towards("systemRead", o, "OUT_FOR_DELIVERY"))
       [] target = "DELIVERED" -> Continue(r, Towards("systemRead", o, "DELIVERED"))
       [] OTHER                -> Return(r)
  /\ UNCHANGED <<orderVars, moneyVars, ledgerVars, kitchenVars, operator, perimees>>

\* complete: the arrival is recorded first when the driver had not declared it.
Complete(r, o) ==
  LET arrive == "ARRIVED_AT_CUSTOMER" IN
  /\ calledBy(delivery[o].driver)
  /\ \/ /\ delivery[o].status = arrive
        /\ Begin(r, "complete", On("completeRead", o))
     \/ /\ canTransitionDelivery(delivery[o].status, arrive)
        /\ Begin(r, "complete",
                 [Towards("moveCommit", o, arrive) EXCEPT
                    !.driver = delivery[o].driver, !.back = "completeRead"])
  /\ UNCHANGED tables

\* The delivery is read again, but its transition is not checked again.
CompleteRead(r) ==
  LET o == requests[r].order IN
  /\ At(r, "completeRead")
  /\ Continue(r, [Towards("moveCommit", o, "DELIVERED") EXCEPT !.driver = delivery[o].driver])
  /\ UNCHANGED tables

DeclineRead(r, o) ==
  /\ calledBy(delivery[o].driver) /\ delivery[o].status = "ASSIGNED"
  /\ Begin(r, "decline", [On("declineCommit", o) EXCEPT !.driver = delivery[o].driver])
  /\ UNCHANGED tables

DeclineCommit(r) ==
  LET o == requests[r].order IN
  /\ At(r, "declineCommit")
  /\ delivery' = [delivery EXCEPT ![o].driver = NoDriver]
  /\ driver' = refreshed(requests[r].driver, driver, delivery')
  /\ IF order[o].status = "ASSIGNED" THEN WriteStatus(o, "READY") ELSE UNCHANGED orderVars
  /\ Finish(r)
  /\ UNCHANGED <<moneyVars, ledgerVars, kitchenVars, operator, perimees>>

(***************************************************************************)
(* Drivers: what they declare, and what the back office sets.              *)
(***************************************************************************)
UpdateAvailabilityRead(r, d, presence) ==
  /\ calledBy(d)
  /\ Begin(r, "availability",
           [Idle EXCEPT !.next = "availabilityCommit", !.driver = d, !.target = presence,
                        !.seen = IF activeDeliveries(delivery, d) = {} THEN {} ELSE {"active"}])
  /\ UNCHANGED tables

UpdateAvailabilityCommit(r) ==
  LET d == requests[r].driver  presence == requests[r].target IN
  /\ At(r, "availabilityCommit")
  /\ driver' = [driver EXCEPT
       ![d].online = CASE presence = "ONLINE"  -> TRUE
                       [] presence = "OFFLINE" -> FALSE
                       [] OTHER                -> @,
       ![d].available = presence \in {"ONLINE", "AVAILABLE"} /\ "active" \notin requests[r].seen]
  /\ Finish(r)
  /\ UNCHANGED <<orderVars, moneyVars, ledgerVars, delivery, kitchenVars,
                 operator, perimees>>

\* Mutant: the driver's deliveries are not looked at.
SetStatusUnchecked(r, d, status) ==
  /\ Begin(r, "driverStatus",
           [Idle EXCEPT !.next = "driverStatusCommit", !.driver = d, !.target = status])
  /\ UNCHANGED tables

SetStatusRead(r, d, status) ==
  /\ status = "SUSPENDED" => activeDeliveries(delivery, d) = {}
  /\ Begin(r, "driverStatus",
           [Idle EXCEPT !.next = "driverStatusCommit", !.driver = d, !.target = status])
  /\ UNCHANGED tables

SetStatusCommit(r) ==
  LET d == requests[r].driver  status == requests[r].target IN
  /\ At(r, "driverStatusCommit")
  /\ driver' = [driver EXCEPT
       ![d] = [online    |-> @.online /\ status = "ACTIVE",
               available |-> status = "ACTIVE",
               status    |-> status]]
  /\ Finish(r)
  /\ UNCHANGED <<orderVars, moneyVars, ledgerVars, delivery, kitchenVars,
                 operator, perimees>>

\* releaseStaleDrivers: one statement signs off whoever has been silent.
ReleaseStaleDrivers(stale) ==
  /\ "releaseStale" \in Ops
  /\ \A d \in stale : driver[d].online /\ activeDeliveries(delivery, d) = {}
  /\ driver' = [d \in Drivers |->
                  IF d \in stale THEN [driver[d] EXCEPT !.online = FALSE, !.available = FALSE]
                                 ELSE driver[d]]
  /\ UNCHANGED <<orderVars, moneyVars, ledgerVars, delivery, kitchenVars,
                 operator, perimees, calls, requests>>

DeliveriesNext ==
  \/ \E r \in Requests :
       \/ \E o \in Orders :
            \/ \E d \in Drivers : AssignRead(r, o, d)
            \/ \E target \in DELIVERY_ACTIVE \union DELIVERY_TERMINAL :
                 Advance(r, o, target) \/ UpdateStatusByStaff(r, o, target)
            \/ Fail(r, o) \/ Complete(r, o) \/ DeclineRead(r, o)
       \/ \E d \in Drivers :
            \/ \E presence \in Presences : UpdateAvailabilityRead(r, d, presence)
            \/ \E status \in AccountStatuses : SetStatusRead(r, d, status)
       \/ AssignFails(r) \/ AssignCommit(r) \/ MoveCommit(r) \/ CompleteRead(r)
       \/ DeclineCommit(r) \/ UpdateAvailabilityCommit(r) \/ SetStatusCommit(r)
  \/ \E stale \in SUBSET Drivers : ReleaseStaleDrivers(stale)
=============================================================================
